---- MODULE Spec2Model ----
(***************************************************************************)
(* Model of hoyo-slack 2.0 (src/hoyo-slack-docker-2.0/app.py): the polling *)
(* cycle, the SQLite tables it appends to, the character diff and the      *)
(* period summaries.                                                       *)
(*                                                                         *)
(* Time.  Every timestamp the program stores is strftime("%Y-%m-%d         *)
(* %H:%M:%S") of a UTC clock reading, a whole number of seconds, and the   *)
(* stored strings compare lexicographically exactly as the seconds compare *)
(* numerically.  The only untruncated reading is now_utc in                *)
(* post_period_summary, used in (now_utc - last_run_dt) < (days_back-1)    *)
(* days and in now_utc - timedelta(days) before that is truncated; since   *)
(* last_run_dt and the day counts are whole seconds, both results depend   *)
(* only on the whole second of now_utc.  So time is the whole second       *)
(* count, an integer, and a day is SecondsPerDay of them.                  *)
(***************************************************************************)
EXTENDS Integers, Sequences, FiniteSets, TLC

\* ---------------------------------------------------------------- bounds
\* seconds in a day (86400 in the code), scaled down
SecondsPerDay == 2
\* the wall clock runs over 0..MaxClock
MaxClock == 5
\* the process starts at a clock reading in 0..MaxStart
MaxStart == 1
\* polling cycles of main_loop that are explored
MaxCycles == 3
\* seconds main_loop sleeps between cycles (LOOP_INTERVAL_SECONDS), scaled
LoopSeconds == 1
\* largest stat value a fetched character carries
MaxStat == 1
\* rows of character_stats_snapshots and of daily_notes that are explored
MaxCharacterRows == 3
MaxNoteRows == 1

\* ------------------------------------------------------------ data model
\* Python's None, and a present value
None == <<>>
Some(v) == <<v>>
Get(o) == o[1]

\* `x or 0` / `x or ""` on a nullable column
OrZero(o) == IF o = None \/ o = Some(0) THEN 0 ELSE Get(o)
OrEmpty(o) == IF o = None \/ o = Some("") THEN "" ELSE Get(o)

\* accounts.json, in file order
Accounts == <<"alice", "bob">>

\* the (label, days_back) pairs run_once_for_account evaluates, in order;
\* the day counts are scaled to the clock range
Periods ==
    << [label |-> "Last 0 days", days_back |-> 0],
       [label |-> "Last 2 days", days_back |-> 2] >>

\* character names, listed in ascending (lexicographic) order
NameOrder == <<"Amber", "Bennett">>
Names == {NameOrder[i] : i \in 1..Len(NameOrder)}
WeaponNames == {"Bow"}

\* the names in descending order
Sorted_Descending(S) ==
    LET asc == SelectSeq(NameOrder, LAMBDA n : n \in S)
    IN [i \in 1..Len(asc) |-> asc[Len(asc) + 1 - i]]

\* sorted(S) for a set of character names
Sorted(S) == SelectSeq(NameOrder, LAMBDA n : n \in S)

\* nullable stat and weapon-name values of a fetched character
StatVals == {None} \cup {Some(v) : v \in 1..MaxStat}
WeaponVals == {None, Some("")} \cup {Some(w) : w \in WeaponNames}

\* one fetched character (c.model_dump(), the columns the queries read)
Char(n, lv, fr, co, wn, wl, wr) ==
    [name |-> n, level |-> lv, friendship |-> fr, constellation |-> co,
     weapon_name |-> wn, weapon_level |-> wl, weapon_refinement |-> wr]

\* the character lists a fetch returns in the polling model: a plain
\* character per name, Amber one level higher, and a list that names
\* Amber twice
PlainChar(n) == Char(n, None, None, None, None, None, None)
AmberUp == Char("Amber", Some(1), None, None, None, None, None)
FetchedCharacterLists ==
    { <<PlainChar("Amber")>>, <<PlainChar("Bennett")>>,
      <<AmberUp, PlainChar("Bennett")>>,
      <<PlainChar("Amber"), AmberUp>> }

VARIABLES
    clock,              \* the UTC wall clock, in seconds
    cycle,              \* number of the polling cycle of main_loop
    acct,               \* index in Accounts of the account being processed
    pc,                 \* the step run_once_for_account is about to take
    period_idx,         \* index in Periods of the next period summary
    snapshot_time_utc,  \* local of run_once_for_account
    daily_notes,        \* table daily_notes, in id order
    character_rows,     \* table character_stats_snapshots, in id order
    run_rows,           \* table character_summary_runs, in id order
    out                 \* what the last handler did: outcome, diff, message

vars == << clock, cycle, acct, pc, period_idx, snapshot_time_utc,
           daily_notes, character_rows, run_rows, out >>

\* ------------------------------------------------------- table rows
\* a row of character_stats_snapshots (the columns any query reads)
CharacterRow(now_utc, account_name, c) ==
    [taken_at_utc |-> now_utc, account_name |-> account_name,
     character_name |-> c.name, level |-> c.level,
     friendship |-> c.friendship, constellation |-> c.constellation,
     weapon_name |-> c.weapon_name, weapon_level |-> c.weapon_level,
     weapon_refinement |-> c.weapon_refinement]

\* a row of character_summary_runs
RunRow(account_name, label, now_str) ==
    [account_name |-> account_name, period_label |-> label,
     last_run_utc |-> now_str]

\* ascending list of a finite set of integers (ORDER BY ... ASC)
RECURSIVE SortAsc(_)
SortAsc(S) ==
    IF S = {} THEN <<>>
    ELSE LET m == CHOOSE x \in S : \A y \in S : x <= y
         IN <<m>> \o SortAsc(S \ {m})

\* ------------------------------------------------------- store queries
\* the dict entry _load_character_batch builds from one row
BatchEntry(r) ==
    [level |-> OrZero(r.level), friendship |-> OrZero(r.friendship),
     constellation |-> OrZero(r.constellation),
     weapon_name |-> OrEmpty(r.weapon_name),
     weapon_level |-> OrZero(r.weapon_level),
     weapon_refinement |-> OrZero(r.weapon_refinement)]

\* _load_character_batch keeping the first row of a name
LoadCharacterBatch_FirstWins(rows, account_name, taken_at_utc) ==
    LET idx == {i \in 1..Len(rows) :
                    /\ rows[i].account_name = account_name
                    /\ rows[i].taken_at_utc = taken_at_utc}
        first(n) == CHOOSE i \in idx :
                    /\ rows[i].character_name = n
                    /\ \A j \in idx : rows[j].character_name = n => i <= j
    IN [n \in {rows[i].character_name : i \in idx} |-> BatchEntry(rows[first(n)])]

\* _load_character_batch: rows are read in id order and batch[name] is
\* assigned for each, so the last row of a name is the one kept
LoadCharacterBatch(rows, account_name, taken_at_utc) ==
    LET idx == {i \in 1..Len(rows) :
                    /\ rows[i].account_name = account_name
                    /\ rows[i].taken_at_utc = taken_at_utc}
        last(n) == CHOOSE i \in idx :
                    /\ rows[i].character_name = n
                    /\ \A j \in idx : rows[j].character_name = n => j <= i
    IN [n \in {rows[i].character_name : i \in idx} |-> BatchEntry(rows[last(n)])]

\* PreviousSnapshotTime without `account_name = ?`
PreviousSnapshotTime_AnyAccount(rows, account_name, before) ==
    LET ts == {rows[i].taken_at_utc : i \in
                 {j \in 1..Len(rows) : rows[j].taken_at_utc < before}}
    IN IF ts = {} THEN None
       ELSE Some(CHOOSE t \in ts : \A u \in ts : u <= t)

\* PreviousSnapshotTime with taken_at_utc <= ?
PreviousSnapshotTime_NotStrict(rows, account_name, before) ==
    LET ts == {rows[i].taken_at_utc : i \in
                 {j \in 1..Len(rows) : /\ rows[j].account_name = account_name
                                       /\ rows[j].taken_at_utc <= before}}
    IN IF ts = {} THEN None
       ELSE Some(CHOOSE t \in ts : \A u \in ts : u <= t)

\* SELECT DISTINCT taken_at_utc ... WHERE taken_at_utc < ? ORDER BY
\* taken_at_utc DESC LIMIT 1
PreviousSnapshotTime(rows, account_name, before) ==
    LET ts == {rows[i].taken_at_utc : i \in
                 {j \in 1..Len(rows) : /\ rows[j].account_name = account_name
                                       /\ rows[j].taken_at_utc < before}}
    IN IF ts = {} THEN None
       ELSE Some(CHOOSE t \in ts : \A u \in ts : u <= t)

\* the window query without DISTINCT: one taken_at_utc per row
DistinctTimesInWindow_PerRow(rows, account_name, window_start, window_end) ==
    LET idx == {j \in 1..Len(rows) : /\ rows[j].account_name = account_name
                                     /\ rows[j].taken_at_utc >= window_start
                                     /\ rows[j].taken_at_utc <= window_end}
        ts == {rows[j].taken_at_utc : j \in idx}
        before(t) == Cardinality({j \in idx : rows[j].taken_at_utc < t})
        upto(t) == Cardinality({j \in idx : rows[j].taken_at_utc <= t})
    IN [i \in 1..Cardinality(idx) |->
          CHOOSE t \in ts : before(t) < i /\ i <= upto(t)]

\* DistinctTimesInWindow with taken_at_utc > window_start
DistinctTimesInWindow_OpenStart(rows, account_name, window_start, window_end) ==
    SortAsc({rows[i].taken_at_utc : i \in
               {j \in 1..Len(rows) : /\ rows[j].account_name = account_name
                                     /\ rows[j].taken_at_utc > window_start
                                     /\ rows[j].taken_at_utc <= window_end}})

\* SELECT DISTINCT taken_at_utc ... WHERE taken_at_utc >= ? AND
\* taken_at_utc <= ? ORDER BY taken_at_utc ASC
DistinctTimesInWindow(rows, account_name, window_start, window_end) ==
    SortAsc({rows[i].taken_at_utc : i \in
               {j \in 1..Len(rows) : /\ rows[j].account_name = account_name
                                     /\ rows[j].taken_at_utc >= window_start
                                     /\ rows[j].taken_at_utc <= window_end}})

\* SELECT DISTINCT character_name ... WHERE taken_at_utc < ?
ExistedBefore(rows, account_name, start_time) ==
    {rows[i].character_name : i \in
       {j \in 1..Len(rows) : /\ rows[j].account_name = account_name
                             /\ rows[j].taken_at_utc < start_time}}

\* LatestRun without the period_label condition
LatestRun_AnyLabel(runs, account_name, label) ==
    LET idx == {i \in 1..Len(runs) : runs[i].account_name = account_name}
    IN IF idx = {} THEN None
       ELSE Some(runs[CHOOSE i \in idx : \A j \in idx : j <= i].last_run_utc)

\* SELECT last_run_utc ... WHERE account_name = ? AND period_label = ?
\* ORDER BY id DESC LIMIT 1
LatestRun(runs, account_name, label) ==
    LET idx == {i \in 1..Len(runs) : /\ runs[i].account_name = account_name
                                     /\ runs[i].period_label = label}
    IN IF idx = {} THEN None
       ELSE Some(runs[CHOOSE i \in idx : \A j \in idx : j <= i].last_run_utc)

\* an evaluation that is suppressed whenever the pair has a run record
NotDue_OnceRun(now_utc, last_run, days_back) == TRUE

\* NotDue without the day of tolerance
NotDue_NoTolerance(now_utc, last_run, days_back) ==
    (now_utc - last_run) < days_back * SecondsPerDay

\* NotDue with a tolerance of two days
NotDue_TwoDaysEarly(now_utc, last_run, days_back) ==
    (now_utc - last_run) < (days_back - 2) * SecondsPerDay

\* NotDue with the days not converted to seconds
NotDue_DaysAsSeconds(now_utc, last_run, days_back) ==
    (now_utc - last_run) < (days_back - 1)

\* delta_days < (days_back - 1), with delta_days = seconds / 86400.0
NotDue(now_utc, last_run, days_back) ==
    (now_utc - last_run) < (days_back - 1) * SecondsPerDay

\* ------------------------------------------------------- change sets
\* The entries are the values the f-strings of the two routines print.
NoWeapon(w) == IF w = "" THEN "No weapon" ELSE w

NewCharEntry(name, new) ==
    [name |-> name, level |-> new.level,
     constellation |-> new.constellation, friendship |-> new.friendship,
     weapon |-> NoWeapon(new.weapon_name),
     weapon_level |-> new.weapon_level,
     weapon_refinement |-> new.weapon_refinement]
LevelEntry(name, old, new) ==
    [name |-> name, old |-> old.level, new |-> new.level]
FriendshipEntry(name, old, new) ==
    [name |-> name, old |-> old.friendship, new |-> new.friendship]
ConstellationEntry(name, old, new) ==
    [name |-> name, old |-> old.constellation, new |-> new.constellation]
WeaponChangeEntry(name, old, new) ==
    [name |-> name, old |-> NoWeapon(old.weapon_name),
     new |-> NoWeapon(new.weapon_name), weapon_level |-> new.weapon_level,
     weapon_refinement |-> new.weapon_refinement]
WeaponLevelEntry(name, old, new) ==
    [name |-> name, weapon |-> NoWeapon(new.weapon_name),
     old |-> old.weapon_level, new |-> new.weapon_level]
RefinementEntry(name, old, new) ==
    [name |-> name, weapon |-> NoWeapon(new.weapon_name),
     old |-> old.weapon_refinement, new |-> new.weapon_refinement]

\* str() of an integer, as an f-string prints it
Digits == <<"0", "1", "2", "3", "4", "5", "6", "7", "8", "9">>
RECURSIVE FormatNat(_)
FormatNat(n) ==
    IF n < 10 THEN Digits[n + 1]
    ELSE FormatNat(n \div 10) \o Digits[(n % 10) + 1]
FormatInt(n) == IF n < 0 THEN "-" \o FormatNat(-n) ELSE FormatNat(n)

\* the seven lists, empty, and no total line
EmptyChangeSet ==
    [new_chars |-> <<>>, level_ups |-> <<>>, friendship_ups |-> <<>>,
     constellation_changes |-> <<>>, weapon_changes |-> <<>>,
     weapon_level_changes |-> <<>>, weapon_refinement_changes |-> <<>>,
     total_line |-> None]

\* the test without `and not total_line`
IsEmptyChangeSet_IgnoresTotal(cs) ==
    /\ cs.new_chars = <<>>
    /\ cs.level_ups = <<>>
    /\ cs.friendship_ups = <<>>
    /\ cs.constellation_changes = <<>>
    /\ cs.weapon_changes = <<>>
    /\ cs.weapon_level_changes = <<>>
    /\ cs.weapon_refinement_changes = <<>>

\* the test that suppresses the message: every list and total_line falsy
IsEmptyChangeSet(cs) ==
    /\ cs.new_chars = <<>>
    /\ cs.level_ups = <<>>
    /\ cs.friendship_ups = <<>>
    /\ cs.constellation_changes = <<>>
    /\ cs.weapon_changes = <<>>
    /\ cs.weapon_level_changes = <<>>
    /\ cs.weapon_refinement_changes = <<>>
    /\ cs.total_line = None

\* ---- maybe_post_character_diff: the loop over all_names
Diff_IsLevelUp(old, new) == new.level > old.level
Diff_IsFriendshipUp(old, new) == new.friendship > old.friendship
Diff_IsConstellationChange(old, new) == new.constellation # old.constellation
Diff_IsWeaponChange(old, new) == new.weapon_name # old.weapon_name
Diff_IsWeaponLevelUp(old, new) == new.weapon_level > old.weapon_level
\* a refinement comparison that reports increases only
Diff_IsRefinementChange_UpOnly(old, new) ==
    new.weapon_refinement > old.weapon_refinement

Diff_IsRefinementChange(old, new) ==
    new.weapon_refinement # old.weapon_refinement
\* the weapon level compared outside the else branch
Diff_WeaponLevelReported_NoElse(old, new) == Diff_IsWeaponLevelUp(old, new)

\* the else branch of `if new_w != old_w`
Diff_WeaponLevelReported(old, new) ==
    ~Diff_IsWeaponChange(old, new) /\ Diff_IsWeaponLevelUp(old, new)
Diff_RefinementReported(old, new) ==
    ~Diff_IsWeaponChange(old, new) /\ Diff_IsRefinementChange(old, new)

\* the field comparisons of a character present in both batches
Diff_Compare(name, old, new, cs) ==
    [cs EXCEPT
      !.level_ups =
          IF Diff_IsLevelUp(old, new)
          THEN Append(@, LevelEntry(name, old, new)) ELSE @,
      !.friendship_ups =
          IF Diff_IsFriendshipUp(old, new)
          THEN Append(@, FriendshipEntry(name, old, new)) ELSE @,
      !.constellation_changes =
          IF Diff_IsConstellationChange(old, new)
          THEN Append(@, ConstellationEntry(name, old, new)) ELSE @,
      !.weapon_changes =
          IF Diff_IsWeaponChange(old, new)
          THEN Append(@, WeaponChangeEntry(name, old, new)) ELSE @,
      !.weapon_level_changes =
          IF Diff_WeaponLevelReported(old, new)
          THEN Append(@, WeaponLevelEntry(name, old, new)) ELSE @,
      !.weapon_refinement_changes =
          IF Diff_RefinementReported(old, new)
          THEN Append(@, RefinementEntry(name, old, new)) ELSE @]

\* a character missing from the target compared as a zero-valued record
Diff_Body_ZeroFilled(name, prev_batch, curr_batch, cs) ==
    IF name \notin DOMAIN prev_batch /\ name \in DOMAIN curr_batch
    THEN [cs EXCEPT !.new_chars =
              Append(@, NewCharEntry(name, curr_batch[name]))]
    ELSE IF name \notin DOMAIN curr_batch
    THEN Diff_Compare(name, prev_batch[name],
             BatchEntry(PlainChar(name)), cs)
    ELSE Diff_Compare(name, prev_batch[name], curr_batch[name], cs)

\* one iteration of `for name in all_names`
Diff_Body(name, prev_batch, curr_batch, cs) ==
    IF name \notin DOMAIN prev_batch /\ name \in DOMAIN curr_batch
    THEN [cs EXCEPT !.new_chars =
              Append(@, NewCharEntry(name, curr_batch[name]))]
    ELSE IF name \notin DOMAIN curr_batch
    THEN cs
    ELSE Diff_Compare(name, prev_batch[name], curr_batch[name], cs)

RECURSIVE Diff_Loop(_, _, _, _)
Diff_Loop(all_names, prev_batch, curr_batch, cs) ==
    IF all_names = <<>> THEN cs
    ELSE Diff_Loop(Tail(all_names), prev_batch, curr_batch,
                   Diff_Body(Head(all_names), prev_batch, curr_batch, cs))

\* total_line without the "+" of a positive delta
Diff_TotalLine_Unsigned(prev_batch, curr_batch) ==
    LET prev_total == Cardinality(DOMAIN prev_batch)
        curr_total == Cardinality(DOMAIN curr_batch)
        delta == curr_total - prev_total
    IN IF prev_total # curr_total
       THEN Some([prev_total |-> prev_total, curr_total |-> curr_total,
                  delta |-> delta, sign |-> "",
                  shown |-> FormatInt(delta)])
       ELSE None

\* total_line of maybe_post_character_diff: None, or the counts, the
\* delta, the sign variable and the text f"{sign}{delta}" that is printed
Diff_TotalLine(prev_batch, curr_batch) ==
    LET prev_total == Cardinality(DOMAIN prev_batch)
        curr_total == Cardinality(DOMAIN curr_batch)
        delta == curr_total - prev_total
        sign == IF delta > 0 THEN "+" ELSE ""
    IN IF prev_total # curr_total
       THEN Some([prev_total |-> prev_total, curr_total |-> curr_total,
                  delta |-> delta, sign |-> sign,
                  shown |-> sign \o FormatInt(delta)])
       ELSE None

\* the change set of maybe_post_character_diff
Diff_ChangeSet(prev_batch, curr_batch) ==
    [Diff_Loop(Sorted(DOMAIN prev_batch \cup DOMAIN curr_batch),
               prev_batch, curr_batch, EmptyChangeSet)
       EXCEPT !.total_line = Diff_TotalLine(prev_batch, curr_batch)]

\* ---- post_period_summary: the loop over all_names
\* a level comparison that also reports a decrease
Summary_IsLevelUp_AnyChange(old, new) == new.level # old.level

Summary_IsLevelUp(old, new) == new.level > old.level
\* a friendship comparison that also reports a decrease
Summary_IsFriendshipUp_AnyChange(old, new) == new.friendship # old.friendship

Summary_IsFriendshipUp(old, new) == new.friendship > old.friendship
Summary_IsConstellationChange(old, new) == new.constellation # old.constellation
Summary_IsWeaponChange(old, new) == new.weapon_name # old.weapon_name
Summary_IsWeaponLevelUp(old, new) == new.weapon_level > old.weapon_level
Summary_IsRefinementChange(old, new) ==
    new.weapon_refinement # old.weapon_refinement
\* the else branch of `if new_w != old_w`
Summary_WeaponLevelReported(old, new) ==
    ~Summary_IsWeaponChange(old, new) /\ Summary_IsWeaponLevelUp(old, new)
Summary_RefinementReported(old, new) ==
    ~Summary_IsWeaponChange(old, new) /\ Summary_IsRefinementChange(old, new)

\* the field comparisons of a character present in both batches
Summary_Compare(name, old, new, cs) ==
    [cs EXCEPT
      !.level_ups =
          IF Summary_IsLevelUp(old, new)
          THEN Append(@, LevelEntry(name, old, new)) ELSE @,
      !.friendship_ups =
          IF Summary_IsFriendshipUp(old, new)
          THEN Append(@, FriendshipEntry(name, old, new)) ELSE @,
      !.constellation_changes =
          IF Summary_IsConstellationChange(old, new)
          THEN Append(@, ConstellationEntry(name, old, new)) ELSE @,
      !.weapon_changes =
          IF Summary_IsWeaponChange(old, new)
          THEN Append(@, WeaponChangeEntry(name, old, new)) ELSE @,
      !.weapon_level_changes =
          IF Summary_WeaponLevelReported(old, new)
          THEN Append(@, WeaponLevelEntry(name, old, new)) ELSE @,
      !.weapon_refinement_changes =
          IF Summary_RefinementReported(old, new)
          THEN Append(@, RefinementEntry(name, old, new)) ELSE @]

\* the loop body without the existed_before test
Summary_Body_NoHistory(name, prev_batch, curr_batch, existed_before, cs) ==
    IF name \notin DOMAIN curr_batch
    THEN cs
    ELSE IF name \notin DOMAIN prev_batch
    THEN [cs EXCEPT !.new_chars =
              Append(@, NewCharEntry(name, curr_batch[name]))]
    ELSE Summary_Compare(name, prev_batch[name], curr_batch[name], cs)

\* one iteration of `for name in all_names`
Summary_Body(name, prev_batch, curr_batch, existed_before, cs) ==
    IF name \notin DOMAIN curr_batch
    THEN cs
    ELSE IF name \notin DOMAIN prev_batch
    THEN IF name \notin existed_before
         THEN [cs EXCEPT !.new_chars =
                   Append(@, NewCharEntry(name, curr_batch[name]))]
         ELSE cs
    ELSE Summary_Compare(name, prev_batch[name], curr_batch[name], cs)

RECURSIVE Summary_Loop(_, _, _, _, _)
Summary_Loop(all_names, prev_batch, curr_batch, existed_before, cs) ==
    IF all_names = <<>> THEN cs
    ELSE Summary_Loop(Tail(all_names), prev_batch, curr_batch, existed_before,
                      Summary_Body(Head(all_names), prev_batch, curr_batch,
                                   existed_before, cs))

\* total_line of post_period_summary: None, or the counts, the delta,
\* the sign variable and the text f"{sign}{delta}" that is printed
Summary_TotalLine(prev_batch, curr_batch) ==
    LET prev_total == Cardinality(DOMAIN prev_batch)
        curr_total == Cardinality(DOMAIN curr_batch)
        delta == curr_total - prev_total
        sign == IF delta > 0 THEN "+" ELSE ""
    IN IF prev_total # curr_total
       THEN Some([prev_total |-> prev_total, curr_total |-> curr_total,
                  delta |-> delta, sign |-> sign,
                  shown |-> sign \o FormatInt(delta)])
       ELSE None

\* the change set of post_period_summary
Summary_ChangeSet(prev_batch, curr_batch, existed_before) ==
    [Summary_Loop(Sorted(DOMAIN prev_batch \cup DOMAIN curr_batch),
                  prev_batch, curr_batch, existed_before, EmptyChangeSet)
       EXCEPT !.total_line = Summary_TotalLine(prev_batch, curr_batch)]

\* --------------------------------------------------------- daily notes
\* The values an attribute of the fetched notes can hold, by the type
\* tests of _parse_recovery_seconds.  Time differences are in tenths of
\* a second, so that int() has a fraction to cut.
RawNone == [kind |-> "none"]
RawInt(n) == [kind |-> "int", v |-> n]
\* the finite float t/10, and the two floats int() refuses
RawFloat(t) == [kind |-> "float", tenths |-> t]
RawFloatNaN == [kind |-> "float_nan"]
RawFloatInf == [kind |-> "float_inf"]
\* strings: "", "  ", a decimal integer (spaces and sign allowed), an
\* ISO-8601 time with or without offset that lies t/10 s after now, any
\* other text
RawStrEmpty == [kind |-> "str_empty"]
RawStrSpaces == [kind |-> "str_spaces"]
RawStrInt(n) == [kind |-> "str_int", v |-> n]
RawStrIso(aware, t) == [kind |-> "str_iso", aware |-> aware, tenths |-> t]
RawStrOther == [kind |-> "str_other"]
\* a datetime t/10 s after now, with or without tzinfo
RawDatetime(aware, t) == [kind |-> "datetime", aware |-> aware, tenths |-> t]
\* a value of another type (a timedelta, a list), truthy or not
RawOther(truthy) == [kind |-> "other", truthy |-> truthy]

\* bool(value), as `or` tests it
Truthy(value) ==
    CASE value.kind = "none" -> FALSE
      [] value.kind = "int" -> value.v # 0
      [] value.kind = "float" -> value.tenths # 0
      [] value.kind = "str_empty" -> FALSE
      [] value.kind = "other" -> value.truthy
      [] OTHER -> TRUE

\* a or b or ... over the getattr results, in order
RECURSIVE OrChain(_)
OrChain(values) ==
    IF Len(values) = 1 \/ Truthy(Head(values)) THEN Head(values)
    ELSE OrChain(Tail(values))

\* int() of the float t/10: the fraction is cut toward zero
TruncTenths(t) == IF t >= 0 THEN t \div 10 ELSE -((-t) \div 10)

\* what a call returns: a value, or an exception that leaves it
Returned(v) == [raised |-> FALSE, value |-> v]
Raised == [raised |-> TRUE]

\* _parse_recovery_seconds
ParseRecoverySeconds(value) ==
    CASE value.kind = "none" -> Returned(None)
      \* isinstance(value, (int, float)): int(value), outside any try
      [] value.kind = "int" -> Returned(Some(value.v))
      [] value.kind = "float" -> Returned(Some(TruncTenths(value.tenths)))
      [] value.kind \in {"float_nan", "float_inf"} -> Raised
      \* isinstance(value, str)
      [] value.kind \in {"str_empty", "str_spaces"} -> Returned(None)
      [] value.kind = "str_int" -> Returned(Some(value.v))
      \* fromisoformat; a time without offset minus the aware now is a
      \* TypeError, caught
      [] value.kind = "str_iso" ->
             IF value.aware THEN Returned(Some(TruncTenths(value.tenths)))
             ELSE Returned(None)
      [] value.kind = "str_other" -> Returned(None)
      \* isinstance(value, datetime): value - now, outside any try
      [] value.kind = "datetime" ->
             IF value.aware THEN Returned(Some(TruncTenths(value.tenths)))
             ELSE Raised
      [] OTHER -> Returned(None)

\* _format_timer of store_daily_notes
FormatTimer(seconds, current, maximum) ==
    IF maximum # None /\ current # None /\ Get(current) >= Get(maximum)
    THEN "Full"
    ELSE IF seconds = None THEN "Unknown"
    ELSE IF Get(seconds) <= 0 THEN "Full"
    ELSE LET hours == Get(seconds) \div 3600
             minutes == (Get(seconds) % 3600) \div 60
             h == IF hours # 0 THEN FormatInt(hours) \o "h" ELSE ""
             m == IF minutes # 0 \/ hours = 0
                  THEN FormatInt(minutes) \o "m" ELSE ""
         IN "in " \o h \o m

\* the fetched notes: the amounts and the recovery attributes that
\* store_daily_notes reads with getattr
Notes(current_resin, max_resin, resin_times, current_realm, max_realm, realm_times) ==
    [current_resin |-> current_resin, max_resin |-> max_resin,
     resin_times |-> resin_times,
     current_realm_currency |-> current_realm,
     max_realm_currency |-> max_realm, realm_times |-> realm_times]

\* resin_recovery_raw and teapot_recovery_raw
ResinRecoveryRaw(notes) == OrChain(notes.resin_times)
TeapotRecoveryRaw(notes) == OrChain(notes.realm_times)

\* the row store_daily_notes inserts (the timer columns and their inputs)
NoteRow(now_utc, account_name, notes) ==
    [taken_at_utc |-> now_utc, account_name |-> account_name,
     resin_now |-> notes.current_resin, resin_max |-> notes.max_resin,
     resin_timer |->
         FormatTimer(ParseRecoverySeconds(ResinRecoveryRaw(notes)).value,
                     notes.current_resin, notes.max_resin),
     teapot_now |-> notes.current_realm_currency,
     teapot_max |-> notes.max_realm_currency,
     teapot_timer |->
         FormatTimer(ParseRecoverySeconds(TeapotRecoveryRaw(notes)).value,
                     notes.current_realm_currency, notes.max_realm_currency)]

\* the notes a fetch returns in the polling model
FetchedNotes ==
    { Notes(Some(1), Some(2), <<RawDatetime(TRUE, 4800), RawNone>>,
            Some(2), Some(2), <<RawDatetime(TRUE, 0), RawNone, RawNone>>) }

\* ------------------------------------------------- Slack and storage
\* what requests.post does: a 2xx response, another response, or an
\* exception (connection error, timeout)
SlackResponses == {"ok", "non_2xx", "transport_error"}

\* a post whose exception is not caught
Summary_PostResult_Propagates(response) ==
    IF response = "transport_error" THEN "raised" ELSE "returned"

\* the try/except around requests.post in store_daily_notes,
\* maybe_post_character_diff and post_period_summary: a response that is
\* not ok and any Exception are logged, and the function goes on
Notes_PostResult(response) == "returned"
Diff_PostResult(response) == "returned"
Summary_PostResult(response) == "returned"

\* a close that keeps the rows of the open transaction
CloseWithoutCommit_KeepsPending(committed, pending) == pending

\* conn.close() in the finally of run_once_for_account while an INSERT is
\* not committed: SQLite rolls the open transaction back
CloseWithoutCommit(committed, pending) == committed

\* ------------------------------------------------------------ handlers
\* the account run_once_for_account is processing
account == Accounts[acct]

\* what a handler reports: its outcome, the diff it computed (reference
\* and target snapshot times and the change set) and the Slack post
Report(op, label, days_back, outcome, diffed, ref, tgt, cs, posted, delivered) ==
    [op |-> op, account |-> account, label |-> label,
     days_back |-> days_back, now |-> clock, outcome |-> outcome,
     diffed |-> diffed, ref |-> ref, tgt |-> tgt, cs |-> cs,
     posted |-> posted, delivered |-> delivered]
Plain(op, outcome) ==
    Report(op, "", 0, outcome, FALSE, None, None, EmptyChangeSet, FALSE, FALSE)

\* the process starts at any time, on an empty database
Init ==
    /\ clock \in 0..MaxStart
    /\ cycle = 1
    /\ acct = 1
    /\ pc = "notes"
    /\ period_idx = 1
    /\ snapshot_time_utc = None
    /\ daily_notes = <<>>
    /\ character_rows = <<>>
    /\ run_rows = <<>>
    /\ out = [op |-> "start", account |-> "", label |-> "", days_back |-> 0,
              now |-> clock, outcome |-> "", diffed |-> FALSE, ref |-> None,
              tgt |-> None, cs |-> EmptyChangeSet, posted |-> FALSE,
              delivered |-> FALSE]

\* 1) fetch_daily_notes_for_account returned None: the store is skipped
SkipDailyNotes ==
    /\ pc = "notes"
    /\ pc' = "chars"
    /\ out' = Plain("notes", "fetch_failed")
    /\ UNCHANGED << clock, cycle, acct, period_idx, snapshot_time_utc,
                    daily_notes, character_rows, run_rows >>

\* store_daily_notes(notes): the timers are computed, where an exception
\* of _parse_recovery_seconds ends the process; then one row is inserted
\* and committed; then the Slack post, whose failure is logged and
\* swallowed.  out.notes is the argument.
StoreNotes(notes) ==
    /\ pc = "notes"
    /\ Len(daily_notes) < MaxNoteRows
    /\ IF \/ ParseRecoverySeconds(ResinRecoveryRaw(notes)).raised
          \/ ParseRecoverySeconds(TeapotRecoveryRaw(notes)).raised
       THEN /\ pc' = "crashed"
            /\ UNCHANGED daily_notes
            /\ out' = Plain("notes", "raised") @@ [notes |-> notes]
       ELSE /\ daily_notes' = Append(daily_notes,
                                     NoteRow(clock, account, notes))
            /\ \E response \in SlackResponses :
                 IF Notes_PostResult(response) = "raised"
                 THEN /\ pc' = "crashed"
                      /\ out' = Report("notes", "", 0, "raised", FALSE,
                                    None, None, EmptyChangeSet, TRUE, FALSE)
                                  @@ [notes |-> notes]
                 ELSE /\ pc' = "chars"
                      /\ out' = Report("notes", "", 0, "stored", FALSE,
                                    None, None, EmptyChangeSet, TRUE,
                                    response = "ok")
                                  @@ [notes |-> notes]
    /\ UNCHANGED << clock, cycle, acct, period_idx, snapshot_time_utc,
                    character_rows, run_rows >>

\* 1) store_daily_notes in the polling model
StoreDailyNotes == \E notes \in FetchedNotes : StoreNotes(notes)

\* a failed character fetch that ends the account's cycle
SkipCharacterSnapshot_AbortsAccount ==
    /\ pc = "chars"
    /\ snapshot_time_utc' = None
    /\ \E outcome \in {"fetch_failed", "fetched_empty"} :
         out' = Plain("chars", outcome)
    /\ period_idx' = 1
    /\ IF acct < Len(Accounts)
       THEN acct' = acct + 1 /\ pc' = "notes"
       ELSE acct' = acct /\ pc' = "sleep"
    /\ UNCHANGED << clock, cycle, daily_notes, character_rows, run_rows >>

\* 2) fetch_characters_for_account returned None (the fetch failed) or
\* an empty list: `if characters:` is false for both
SkipCharacterSnapshot ==
    /\ pc = "chars"
    /\ pc' = "diff"
    /\ snapshot_time_utc' = None
    /\ \E outcome \in {"fetch_failed", "fetched_empty"} :
         out' = Plain("chars", outcome)
    /\ UNCHANGED << clock, cycle, acct, period_idx, daily_notes,
                    character_rows, run_rows >>

\* the rows store_character_stats_snapshots inserts, in list order
NewCharacterRows(now_utc, account_name, characters) ==
    [i \in 1..Len(characters) |->
        CharacterRow(now_utc, account_name, characters[i])]

\* 2) store_character_stats_snapshots
StoreCharacterStatsSnapshots ==
    /\ pc = "chars"
    /\ \E characters \in FetchedCharacterLists :
         /\ Len(character_rows) + Len(characters) <= MaxCharacterRows
         /\ character_rows' =
              character_rows \o NewCharacterRows(clock, account, characters)
    /\ snapshot_time_utc' = Some(clock)
    /\ pc' = "diff"
    /\ out' = Plain("chars", "stored")
    /\ UNCHANGED << clock, cycle, acct, period_idx, daily_notes, run_rows >>

\* 3) maybe_post_character_diff, called only when a snapshot was stored
MaybePostCharacterDiff ==
    /\ pc = "diff"
    /\ period_idx' = 1
    /\ IF snapshot_time_utc = None
       THEN pc' = "period" /\ out' = Plain("diff", "skipped")
       ELSE LET t == Get(snapshot_time_utc)
                row == PreviousSnapshotTime(character_rows, account, t)
            IN IF row = None
               THEN pc' = "period" /\ out' = Plain("diff", "no_previous")
               ELSE LET prev_time_utc == Get(row)
                        prev_batch == LoadCharacterBatch(character_rows,
                                          account, prev_time_utc)
                        curr_batch == LoadCharacterBatch(character_rows,
                                          account, t)
                        cs == Diff_ChangeSet(prev_batch, curr_batch)
                    IN IF IsEmptyChangeSet(cs)
                       THEN /\ pc' = "period"
                            /\ out' = Report("diff", "", 0, "empty", TRUE,
                                          row, Some(t), cs, FALSE, FALSE)
                       ELSE \E response \in SlackResponses :
                              IF Diff_PostResult(response) = "raised"
                              THEN /\ pc' = "crashed"
                                   /\ out' = Report("diff", "", 0, "raised",
                                          TRUE, row, Some(t), cs, TRUE, FALSE)
                              ELSE /\ pc' = "period"
                                   /\ out' = Report("diff", "", 0, "posted",
                                          TRUE, row, Some(t), cs, TRUE,
                                          response = "ok")
    /\ UNCHANGED << clock, cycle, acct, snapshot_time_utc, daily_notes,
                    character_rows, run_rows >>

\* after the last period summary run_once_for_account closes the
\* connection and run_once_all_accounts takes the next account
\* the next account taken after the first period summary
AfterPeriod_LeavesAfterFirstPeriod ==
    /\ period_idx' = 1
    /\ IF acct < Len(Accounts)
       THEN acct' = acct + 1 /\ pc' = "notes"
       ELSE acct' = acct /\ pc' = "sleep"

AfterPeriod ==
    IF period_idx < Len(Periods)
    THEN /\ period_idx' = period_idx + 1
         /\ UNCHANGED << pc, acct >>
    ELSE /\ period_idx' = 1
         /\ IF acct < Len(Accounts)
            THEN acct' = acct + 1 /\ pc' = "notes"
            ELSE acct' = acct /\ pc' = "sleep"

\* an early return that records no run
InsertRunInsufficient_Skipped(runs, account_name, label, now_str) == runs
InsertRunNoChanges_Skipped(runs, account_name, label, now_str) == runs

\* the three INSERTs into character_summary_runs: with fewer than two
\* snapshot times, with an empty change set, and after the Slack post
InsertRunInsufficient(runs, account_name, label, now_str) ==
    Append(runs, RunRow(account_name, label, now_str))
InsertRunNoChanges(runs, account_name, label, now_str) ==
    Append(runs, RunRow(account_name, label, now_str))
InsertRunAfterPost(runs, account_name, label, now_str) ==
    Append(runs, RunRow(account_name, label, now_str))

\* an exception leaves run_once_for_account (the try has only a
\* finally), run_once_all_accounts, asyncio.run and main_loop: the
\* process ends
Crash ==
    /\ pc' = "crashed"
    /\ UNCHANGED << period_idx, acct >>

\* 4) post_period_summary for Periods[period_idx]; insert_ok tells
\* whether its INSERT into character_summary_runs and the commit succeed
PeriodSummary(insert_ok) ==
    /\ pc = "period"
    /\ LET label == Periods[period_idx].label
           days_back == Periods[period_idx].days_back
           now_utc == clock
           row == LatestRun(run_rows, account, label)
       IN IF row # None /\ NotDue(now_utc, Get(row), days_back)
          THEN /\ insert_ok
               /\ out' = Report("period", label, days_back, "not_due",
                            FALSE, None, None, EmptyChangeSet, FALSE, FALSE)
               /\ UNCHANGED run_rows
               /\ AfterPeriod
          ELSE LET window_start == now_utc - days_back * SecondsPerDay
                   snap_rows == DistinctTimesInWindow(character_rows,
                                    account, window_start, now_utc)
               IN IF Len(snap_rows) < 2
                  THEN IF insert_ok
                       THEN /\ run_rows' = InsertRunInsufficient(run_rows,
                                               account, label, now_utc)
                            /\ out' = Report("period", label, days_back,
                                         "no_data", FALSE, None, None,
                                         EmptyChangeSet, FALSE, FALSE)
                            /\ AfterPeriod
                       ELSE /\ run_rows' = CloseWithoutCommit(run_rows,
                                   InsertRunInsufficient(run_rows, account,
                                                         label, now_utc))
                            /\ out' = Report("period", label, days_back,
                                         "storage_error", FALSE, None, None,
                                         EmptyChangeSet, FALSE, FALSE)
                            /\ Crash
                  ELSE LET start_time == snap_rows[1]
                           end_time == snap_rows[Len(snap_rows)]
                           prev_batch == LoadCharacterBatch(
                               character_rows, account, start_time)
                           curr_batch == LoadCharacterBatch(
                               character_rows, account, end_time)
                           existed_before == ExistedBefore(
                               character_rows, account, start_time)
                           cs == Summary_ChangeSet(prev_batch,
                                     curr_batch, existed_before)
                       IN IF IsEmptyChangeSet(cs)
                          THEN IF insert_ok
                               THEN /\ run_rows' = InsertRunNoChanges(
                                         run_rows, account, label, now_utc)
                                    /\ out' = Report("period", label,
                                           days_back, "empty", TRUE,
                                           Some(start_time), Some(end_time),
                                           cs, FALSE, FALSE)
                                    /\ AfterPeriod
                               ELSE /\ run_rows' = CloseWithoutCommit(
                                         run_rows, InsertRunNoChanges(
                                         run_rows, account, label, now_utc))
                                    /\ out' = Report("period", label,
                                           days_back, "storage_error", TRUE,
                                           Some(start_time), Some(end_time),
                                           cs, FALSE, FALSE)
                                    /\ Crash
                          ELSE \E response \in SlackResponses :
                                 IF Summary_PostResult(response) = "raised"
                                 THEN /\ insert_ok
                                      /\ UNCHANGED run_rows
                                      /\ out' = Report("period", label,
                                             days_back, "raised", TRUE,
                                             Some(start_time), Some(end_time),
                                             cs, TRUE, FALSE)
                                      /\ Crash
                                 ELSE IF insert_ok
                                 THEN /\ run_rows' = InsertRunAfterPost(
                                           run_rows, account, label, now_utc)
                                      /\ out' = Report("period", label,
                                             days_back, "posted", TRUE,
                                             Some(start_time), Some(end_time),
                                             cs, TRUE, response = "ok")
                                      /\ AfterPeriod
                                 ELSE /\ run_rows' = CloseWithoutCommit(
                                           run_rows, InsertRunAfterPost(
                                           run_rows, account, label, now_utc))
                                      /\ out' = Report("period", label,
                                             days_back, "storage_error", TRUE,
                                             Some(start_time), Some(end_time),
                                             cs, TRUE, response = "ok")
                                      /\ Crash
    /\ UNCHANGED << clock, cycle, snapshot_time_utc, daily_notes,
                    character_rows >>

PostPeriodSummary == PeriodSummary(TRUE)

\* ---- the same steps when SQLite raises (disk full, database locked)
\* 1) store_daily_notes: the INSERT raises, or the commit does with the
\* row pending; the Slack post is not reached
StoreDailyNotesStorageError ==
    /\ pc = "notes"
    /\ \E notes \in FetchedNotes :
         \E pending \in {daily_notes,
                          Append(daily_notes, NoteRow(clock, account, notes))} :
           daily_notes' = CloseWithoutCommit(daily_notes, pending)
    /\ out' = Plain("notes", "storage_error")
    /\ Crash
    /\ UNCHANGED << clock, cycle, snapshot_time_utc, character_rows,
                    run_rows >>

\* 2) store_character_stats_snapshots: k INSERTs of the batch succeed,
\* then the next one raises, or the commit does (k = len(characters));
\* out.pending is k, the rows inserted and not committed
StoreCharacterStatsSnapshotsStorageError ==
    /\ pc = "chars"
    /\ \E characters \in FetchedCharacterLists :
         \E k \in 0..Len(characters) :
           /\ character_rows' = CloseWithoutCommit(character_rows,
                  character_rows \o SubSeq(
                      NewCharacterRows(clock, account, characters), 1, k))
           /\ out' = Plain("chars", "storage_error") @@ [pending |-> k]
    /\ Crash
    /\ UNCHANGED << clock, cycle, snapshot_time_utc, daily_notes, run_rows >>

\* 4) post_period_summary: the INSERT of the run record or its commit
\* raises
PostPeriodSummaryStorageError == PeriodSummary(FALSE)

\* main_loop: time.sleep(loop_seconds), then the next cycle
Sleep ==
    /\ pc = "sleep"
    /\ cycle < MaxCycles
    /\ clock + LoopSeconds <= MaxClock
    /\ clock' = clock + LoopSeconds
    /\ cycle' = cycle + 1
    /\ acct' = 1
    /\ pc' = "notes"
    /\ out' = Plain("sleep", "")
    /\ UNCHANGED << period_idx, snapshot_time_utc, daily_notes,
                    character_rows, run_rows >>

\* The clock unit is half a day and one cycle takes seconds, so the
\* clock moves between cycles, while main_loop sleeps.
Idle == pc = "sleep"

\* the sleep and the cycle took longer than loop_seconds
Tick ==
    /\ Idle
    /\ clock < MaxClock
    /\ clock' = clock + 1
    /\ UNCHANGED << cycle, acct, pc, period_idx, snapshot_time_utc,
                    daily_notes, character_rows, run_rows, out >>

\* the wall clock datetime.now reads is set back (it is not monotonic)
ClockStepBack ==
    /\ Idle
    /\ clock > 0
    /\ clock' = clock - 1
    /\ UNCHANGED << cycle, acct, pc, period_idx, snapshot_time_utc,
                    daily_notes, character_rows, run_rows, out >>

Next ==
    \/ SkipDailyNotes
    \/ StoreDailyNotes
    \/ SkipCharacterSnapshot
    \/ StoreCharacterStatsSnapshots
    \/ MaybePostCharacterDiff
    \/ PostPeriodSummary
    \/ Sleep
    \/ Tick
    \/ ClockStepBack

Spec == Init /\ [][Next]_vars

\* ------------------------------------------------------- one cycle
\* One cycle of main_loop over all accounts, on an empty database or on
\* one that earlier cycles left with two snapshots of the first account.
\* Every step of a cycle is a sequential call that returns (the fetches
\* catch every exception, the Slack posts have a timeout), so a cycle that
\* has started runs on.
EarlierCycles ==
    { <<>>,
      NewCharacterRows(MaxClock - 2, Accounts[1], <<PlainChar("Amber")>>)
        \o NewCharacterRows(MaxClock - 1, Accounts[1], <<AmberUp>>) }

OneCycleInit ==
    /\ clock = MaxClock
    /\ cycle = MaxCycles
    /\ acct = 1
    /\ pc = "notes"
    /\ period_idx = 1
    /\ snapshot_time_utc = None
    /\ daily_notes = <<>>
    /\ character_rows \in EarlierCycles
    /\ run_rows = <<>>
    /\ out = [op |-> "sleep", account |-> Accounts[1], label |-> "",
              days_back |-> 0, now |-> MaxClock, outcome |-> "",
              diffed |-> FALSE, ref |-> None, tgt |-> None,
              cs |-> EmptyChangeSet, posted |-> FALSE, delivered |-> FALSE]

OneCycleNext ==
    \/ SkipDailyNotes
    \/ StoreDailyNotes
    \/ SkipCharacterSnapshot
    \/ StoreCharacterStatsSnapshots
    \/ MaybePostCharacterDiff
    \/ PostPeriodSummary

OneCycleSpec ==
    OneCycleInit /\ [][OneCycleNext]_vars /\ WF_vars(OneCycleNext)

\* ------------------------------------------- the daily notes alone
\* store_daily_notes on notes of every shape: the amounts absent, below,
\* at and above the maximum, and recovery attributes of every type the
\* parser tests for.
Amounts ==
    { <<None, None>>, <<Some(1), None>>, <<Some(1), Some(2)>>,
      <<Some(2), Some(2)>>, <<Some(3), Some(2)>> }
RawValues ==
    { RawNone, RawInt(-5), RawInt(0), RawInt(59), RawInt(3600), RawInt(7325),
      RawFloat(-5), RawFloat(0), RawFloat(9), RawFloat(615),
      RawFloatNaN, RawFloatInf,
      RawStrEmpty, RawStrSpaces, RawStrInt(-1), RawStrInt(0), RawStrInt(3660),
      RawStrIso(TRUE, -3), RawStrIso(TRUE, 36005), RawStrIso(FALSE, 600),
      RawStrOther,
      RawDatetime(TRUE, -20), RawDatetime(TRUE, 0), RawDatetime(TRUE, 48000),
      RawDatetime(FALSE, 600),
      RawOther(TRUE), RawOther(FALSE) }
NoteShapes ==
    { Notes(ra[1], ra[2], <<r1, r2>>, ta[1], ta[2], <<t1, t2, t3>>) :
        ra \in Amounts, r1 \in RawValues,
        r2 \in {RawNone, RawInt(0), RawInt(120)},
        ta \in {<<None, None>>, <<Some(1), Some(2)>>},
        t1 \in {RawNone, RawInt(0), RawDatetime(TRUE, 48000)},
        t2 \in {RawNone, RawStrInt(0)},
        t3 \in {RawNone, RawFloat(0)} }

StoreDailyNotesOfAnyShape == \E notes \in NoteShapes : StoreNotes(notes)

TimerNext == StoreDailyNotesOfAnyShape

TimerSpec == Init /\ [][TimerNext]_vars

\* ------------------------------------------- the cycles with failures
\* The polling cycles, back to back, with a storage that can fail at
\* each write.
FaultNext ==
    \/ SkipDailyNotes
    \/ StoreDailyNotes
    \/ StoreDailyNotesStorageError
    \/ SkipCharacterSnapshot
    \/ StoreCharacterStatsSnapshots
    \/ StoreCharacterStatsSnapshotsStorageError
    \/ MaybePostCharacterDiff
    \/ PostPeriodSummary
    \/ PostPeriodSummaryStorageError
    \/ Sleep

FaultSpec == Init /\ [][FaultNext]_vars

\* ------------------------------------------------ a clock never set back
\* The polling loop with a wall clock that never reads less than before.
MonotonicNext ==
    \/ SkipDailyNotes
    \/ StoreDailyNotes
    \/ SkipCharacterSnapshot
    \/ StoreCharacterStatsSnapshots
    \/ MaybePostCharacterDiff
    \/ PostPeriodSummary
    \/ Sleep
    \/ Tick

MonotonicSpec == Init /\ [][MonotonicNext]_vars

\* ------------------------------------------------ cycles a day apart
\* The polling loop over more cycles, with a clock that is not set back
\* and with a sleep and a cycle that together take at most one day, so
\* that the evaluations of a pair are never more than one day apart.
\* The daily notes fetch fails throughout.
MaxDailyCycles == 5
MaxDailyClock == 8

SleepWithinADay ==
    /\ pc = "sleep"
    /\ cycle < MaxDailyCycles
    /\ \E late \in 0..(SecondsPerDay - LoopSeconds) :
         /\ clock + LoopSeconds + late <= MaxDailyClock
         /\ clock' = clock + LoopSeconds + late
    /\ cycle' = cycle + 1
    /\ acct' = 1
    /\ pc' = "notes"
    /\ out' = Plain("sleep", "")
    /\ UNCHANGED << period_idx, snapshot_time_utc, daily_notes,
                    character_rows, run_rows >>

DailyNext ==
    \/ SkipDailyNotes
    \/ SkipCharacterSnapshot
    \/ StoreCharacterStatsSnapshots
    \/ MaybePostCharacterDiff
    \/ PostPeriodSummary
    \/ SleepWithinADay

DailySpec == Init /\ [][DailyNext]_vars

\* ------------------------------------------------ cycles that keep running
\* The polling loop that keeps running: every fetch fails, every Slack
\* post succeeds or fails, the storage works, and each sleep moves the
\* clock on by loop_seconds or more.  The database is empty or holds two
\* snapshots of the first account from earlier cycles.  The steps of a
\* cycle return and time.sleep returns, so the loop runs on (until the
\* bounds of the model).
MaxRunCycles == 4
MaxRunClock == 8

RunOnInit ==
    /\ clock = MaxClock
    /\ cycle = 1
    /\ acct = 1
    /\ pc = "notes"
    /\ period_idx = 1
    /\ snapshot_time_utc = None
    /\ daily_notes = <<>>
    /\ character_rows \in EarlierCycles
    /\ run_rows = <<>>
    /\ out = [op |-> "sleep", account |-> Accounts[1], label |-> "",
              days_back |-> 0, now |-> MaxClock, outcome |-> "",
              diffed |-> FALSE, ref |-> None, tgt |-> None,
              cs |-> EmptyChangeSet, posted |-> FALSE, delivered |-> FALSE]

SleepOn ==
    /\ pc = "sleep"
    /\ cycle < MaxRunCycles
    /\ \E late \in 0..1 :
         /\ clock + LoopSeconds + late <= MaxRunClock
         /\ clock' = clock + LoopSeconds + late
    /\ cycle' = cycle + 1
    /\ acct' = 1
    /\ pc' = "notes"
    /\ out' = Plain("sleep", "")
    /\ UNCHANGED << period_idx, snapshot_time_utc, daily_notes,
                    character_rows, run_rows >>

RunOnNext ==
    \/ SkipDailyNotes
    \/ SkipCharacterSnapshot
    \/ MaybePostCharacterDiff
    \/ PostPeriodSummary
    \/ SleepOn

RunOnSpec == RunOnInit /\ [][RunOnNext]_vars /\ WF_vars(RunOnNext)

\* ------------------------------------------------ the two diffs alone
\* The diff of maybe_post_character_diff and the period summaries of
\* the first account, on a database that holds two snapshots of it: a
\* reference at RefTime and the snapshot just stored at TargetTime.
\* Bennett is in both, unchanged; Amber is in either or both, with every
\* combination of stored column values.  An older snapshot, taken before
\* every window that ends at TargetTime, is absent or holds Amber.
RefTime == 2
TargetTime == 3
EarlierTime == TargetTime - Periods[Len(Periods)].days_back * SecondsPerDay - 1
EarlierChoices == {<<>>, <<PlainChar("Amber")>>}

AmberRecords ==
    {Char("Amber", lv, fr, co, wn, wl, wr) :
        lv \in StatVals, fr \in StatVals, co \in StatVals,
        wn \in WeaponVals, wl \in StatVals, wr \in StatVals}
AmberChoices == {<<>>} \cup {<<c>> : c \in AmberRecords}

DiffInit ==
    /\ clock = TargetTime
    /\ cycle = 1
    /\ acct = 1
    /\ pc = "diff"
    /\ period_idx = 1
    /\ snapshot_time_utc = Some(TargetTime)
    /\ daily_notes = <<>>
    /\ \E earlier \in EarlierChoices, ref \in AmberChoices, tgt \in AmberChoices :
         character_rows =
             NewCharacterRows(EarlierTime, Accounts[1], earlier)
             \o NewCharacterRows(RefTime, Accounts[1],
                                 <<PlainChar("Bennett")>> \o ref)
             \o NewCharacterRows(TargetTime, Accounts[1],
                                 <<PlainChar("Bennett")>> \o tgt)
    /\ run_rows = <<>>
    /\ out = [op |-> "chars", account |-> Accounts[1], label |-> "",
              days_back |-> 0, now |-> TargetTime, outcome |-> "stored",
              diffed |-> FALSE, ref |-> None, tgt |-> None,
              cs |-> EmptyChangeSet, posted |-> FALSE, delivered |-> FALSE]

DiffNext ==
    \/ MaybePostCharacterDiff
    \/ PostPeriodSummary

DiffSpec == DiffInit /\ [][DiffNext]_vars

\* ------------------------------------------- the order of the entries
\* The two diffs on a database that holds a reference and a target
\* snapshot of the first account, each stored from a fetched list of one
\* or two characters in either order, plain or one level higher.
LevelledUp(n) == Char(n, Some(MaxStat), None, None, None, None, None)
OrderChars == {PlainChar(n) : n \in Names} \cup {LevelledUp(n) : n \in Names}
OrderLists == {<<c>> : c \in OrderChars}
                \cup {<<c, d>> : c \in OrderChars, d \in OrderChars}

OrderInit ==
    /\ clock = TargetTime
    /\ cycle = 1
    /\ acct = 1
    /\ pc = "diff"
    /\ period_idx = 1
    /\ snapshot_time_utc = Some(TargetTime)
    /\ daily_notes = <<>>
    /\ \E ref \in OrderLists, tgt \in OrderLists :
         character_rows =
             NewCharacterRows(RefTime, Accounts[1], ref)
             \o NewCharacterRows(TargetTime, Accounts[1], tgt)
    /\ run_rows = <<>>
    /\ out = [op |-> "chars", account |-> Accounts[1], label |-> "",
              days_back |-> 0, now |-> TargetTime, outcome |-> "stored",
              diffed |-> FALSE, ref |-> None, tgt |-> None,
              cs |-> EmptyChangeSet, posted |-> FALSE, delivered |-> FALSE]

OrderNext ==
    \/ MaybePostCharacterDiff
    \/ PostPeriodSummary

OrderSpec == OrderInit /\ [][OrderNext]_vars

\* ================================================================ claims
\* the period post_period_summary is about to evaluate
EvalLabel == Periods[period_idx].label
EvalDaysBack == Periods[period_idx].days_back

\* the run records of (account, label), by id
RunIds(a, l) ==
    {i \in 1..Len(run_rows) : /\ run_rows[i].account_name = a
                              /\ run_rows[i].period_label = l}
HasRunRecord(a, l) == RunIds(a, l) # {}
\* last_run of the most recent run record of (account, label)
MostRecentLastRun(a, l) ==
    run_rows[CHOOSE i \in RunIds(a, l) : \A j \in RunIds(a, l) : j <= i]
        .last_run_utc

\* the distinct snapshot times of an account in [now - days_back, now]
WindowTimes(a, now, days_back) ==
    {character_rows[i].taken_at_utc : i \in
       {j \in 1..Len(character_rows) :
          /\ character_rows[j].account_name = a
          /\ character_rows[j].taken_at_utc >= now - days_back * SecondsPerDay
          /\ character_rows[j].taken_at_utc <= now}}

\* the evaluation about to happen has a run record less than
\* (days_back - 1) days old
EvalTooEarly ==
    /\ HasRunRecord(account, EvalLabel)
    /\ clock - MostRecentLastRun(account, EvalLabel)
         < (EvalDaysBack - 1) * SecondsPerDay

\* C1: an evaluation of post_period_summary whose most recent run record
\* is less than (days_back - 1) days before now is suppressed: it writes
\* and changes no run record, diffs no snapshot and sends no message.
C1_SuppressedEvaluationDoesNothing ==
    [][ (pc = "period" /\ EvalTooEarly)
          => /\ run_rows' = run_rows
             /\ character_rows' = character_rows
             /\ out'.outcome = "not_due"
             /\ ~out'.diffed
             /\ ~out'.posted ]_vars

\* C1 witness: an evaluation was suppressed with a run record between 0
\* and (days_back - 1) days old
C1_Witness ==
    /\ out.op = "period"
    /\ out.outcome = "not_due"
    /\ HasRunRecord(out.account, out.label)
    /\ out.now - MostRecentLastRun(out.account, out.label) > 0
    /\ out.now - MostRecentLastRun(out.account, out.label)
         < (out.days_back - 1) * SecondsPerDay

\* C2: with no run record for (account, label) the evaluation is due for
\* every now and days_back: it is not suppressed, runs the window query
\* and so leaves a run record with last_run = now.
C2_NeverRunIsDue ==
    [][ (pc = "period" /\ ~HasRunRecord(account, EvalLabel))
          => /\ out'.outcome \in {"no_data", "empty", "posted"}
             /\ run_rows' = Append(run_rows,
                    [account_name |-> account, period_label |-> EvalLabel,
                     last_run_utc |-> clock]) ]_vars

\* C2 witness: the first evaluation of a pair whose account already has
\* run records of another label, at a start time other than 0
C2_Witness ==
    /\ out.op = "period"
    /\ out.outcome = "no_data"
    /\ out.now > 0
    /\ Cardinality(RunIds(out.account, out.label)) = 1
    /\ \E l \in {Periods[k].label : k \in 1..Len(Periods)} :
         l # out.label /\ HasRunRecord(out.account, l)

\* the evaluation about to happen is due
EvalDue == pc = "period" /\ ~EvalTooEarly

\* C3: a due evaluation whose window holds fewer than 2 distinct snapshot
\* times records last_run = now, produces no change set and sends nothing.
C3_DueWithoutDataRecordsRun ==
    [][ (EvalDue /\ Cardinality(WindowTimes(account, clock, EvalDaysBack)) < 2)
          => /\ run_rows' = Append(run_rows,
                    [account_name |-> account, period_label |-> EvalLabel,
                     last_run_utc |-> clock])
             /\ ~out'.diffed
             /\ out'.cs = EmptyChangeSet
             /\ ~out'.posted ]_vars

\* C3 witness: a due evaluation found exactly one snapshot time, of a
\* snapshot of two rows, and recorded the run
C3_Witness ==
    /\ out.op = "period"
    /\ out.outcome = "no_data"
    /\ Cardinality(WindowTimes(out.account, out.now, out.days_back)) = 1
    /\ Cardinality({i \in 1..Len(character_rows) :
          /\ character_rows[i].account_name = out.account
          /\ character_rows[i].taken_at_utc = out.now}) = 2
    /\ MostRecentLastRun(out.account, out.label) = out.now

\* C4: a due evaluation with at least 2 distinct snapshot times in its
\* window diffs and ends with last_run = now recorded, with an empty
\* change set (nothing sent) and with a non-empty one (message sent).
C4_DueWithDataRecordsRun ==
    [][ (EvalDue /\ Cardinality(WindowTimes(account, clock, EvalDaysBack)) >= 2)
          => /\ run_rows' = Append(run_rows,
                    [account_name |-> account, period_label |-> EvalLabel,
                     last_run_utc |-> clock])
             /\ out'.diffed
             /\ out'.outcome \in {"empty", "posted"}
             /\ out'.posted <=> out'.outcome = "posted" ]_vars

\* C4 witness: a due evaluation diffed two snapshots, found no change,
\* sent nothing and recorded the run
C4_Witness ==
    /\ out.op = "period"
    /\ out.outcome = "empty"
    /\ out.diffed
    /\ ~out.posted
    /\ Cardinality(WindowTimes(out.account, out.now, out.days_back)) >= 2
    /\ MostRecentLastRun(out.account, out.label) = out.now

\* C5: for every (account, label) the last_run of the most recent run
\* record never decreases, for any days_back and any values of now.
C5_LastRunNeverDecreases ==
    [][ \A i \in 1..Len(Accounts), k \in 1..Len(Periods) :
          HasRunRecord(Accounts[i], Periods[k].label)
            => MostRecentLastRun(Accounts[i], Periods[k].label)'
                 >= MostRecentLastRun(Accounts[i], Periods[k].label) ]_vars

\* ------------------------------------------------- claims on the diffs
\* the reference mapping A and the target mapping B of the diff that the
\* last handler computed (out.diffed)
RefBatch == LoadCharacterBatch(character_rows, out.account, Get(out.ref))
TargetBatch == LoadCharacterBatch(character_rows, out.account, Get(out.tgt))
InBoth == DOMAIN RefBatch \cap DOMAIN TargetBatch
OnlyInTarget == DOMAIN TargetBatch \ DOMAIN RefBatch
OnlyInRef == DOMAIN RefBatch \ DOMAIN TargetBatch

\* the character names of a category, and a name's entries in it
NamesIn(entries) == {entries[i].name : i \in 1..Len(entries)}
EntriesOf(entries, n) ==
    Cardinality({i \in 1..Len(entries) : entries[i].name = n})

\* the names in the six field-change categories of a change set
FieldChangeNames(cs) ==
    NamesIn(cs.level_ups) \cup NamesIn(cs.friendship_ups)
      \cup NamesIn(cs.constellation_changes) \cup NamesIn(cs.weapon_changes)
      \cup NamesIn(cs.weapon_level_changes)
      \cup NamesIn(cs.weapon_refinement_changes)

\* the names in snapshots of the account taken before the reference
SeenBeforeRef ==
    {character_rows[i].character_name : i \in
       {j \in 1..Len(character_rows) :
          /\ character_rows[j].account_name = out.account
          /\ character_rows[j].taken_at_utc < Get(out.ref)}}

C7_LevelAndFriendshipOnlyIncrease ==
    out.diffed =>
      /\ \A n \in InBoth :
           /\ EntriesOf(out.cs.level_ups, n) =
                IF TargetBatch[n].level > RefBatch[n].level THEN 1 ELSE 0
           /\ EntriesOf(out.cs.friendship_ups, n) =
                IF TargetBatch[n].friendship > RefBatch[n].friendship
                THEN 1 ELSE 0
      /\ NamesIn(out.cs.level_ups) \cup NamesIn(out.cs.friendship_ups)
           \subseteq InBoth
      /\ \A i \in 1..Len(out.cs.level_ups) :
           out.cs.level_ups[i].new > out.cs.level_ups[i].old
      /\ \A i \in 1..Len(out.cs.friendship_ups) :
           out.cs.friendship_ups[i].new > out.cs.friendship_ups[i].old

\* C7 witness: a period summary diffed a character whose level went down
\* and whose friendship went up
C7_Witness ==
    /\ out.op = "period"
    /\ out.diffed
    /\ \E n \in InBoth :
         /\ TargetBatch[n].level < RefBatch[n].level
         /\ TargetBatch[n].friendship > RefBatch[n].friendship
         /\ n \in NamesIn(out.cs.friendship_ups)

\* C8: for a character in both A and B a constellation entry is emitted
\* iff the constellations differ, up or down, and, with the weapon name
\* unchanged, a refinement entry iff the refinements differ, up or down.
C8_ConstellationAndRefinementAnyChange ==
    out.diffed =>
      \A n \in InBoth :
        /\ EntriesOf(out.cs.constellation_changes, n) =
             IF TargetBatch[n].constellation # RefBatch[n].constellation
             THEN 1 ELSE 0
        /\ TargetBatch[n].weapon_name = RefBatch[n].weapon_name
             => EntriesOf(out.cs.weapon_refinement_changes, n) =
                  IF TargetBatch[n].weapon_refinement
                       # RefBatch[n].weapon_refinement
                  THEN 1 ELSE 0

\* C8 witness: the single diff met a character with the same weapon whose
\* constellation and refinement both went down
C8_Witness ==
    /\ out.op = "diff"
    /\ out.diffed
    /\ \E n \in InBoth :
         /\ TargetBatch[n].weapon_name = RefBatch[n].weapon_name
         /\ TargetBatch[n].constellation < RefBatch[n].constellation
         /\ TargetBatch[n].weapon_refinement < RefBatch[n].weapon_refinement
         /\ n \in NamesIn(out.cs.weapon_refinement_changes)

\* the stored weapon name of a character at a snapshot time, a missing
\* or empty one read as no weapon
StoredWeapon(t, n) ==
    LET r == CHOOSE r \in {character_rows[i] : i \in 1..Len(character_rows)} :
                 /\ r.account_name = out.account
                 /\ r.taken_at_utc = t
                 /\ r.character_name = n
    IN IF r.weapon_name \in {None, Some("")} THEN "No weapon"
       ELSE Get(r.weapon_name)

\* C9: for a character in both A and B whose weapon name differs (empty
\* or missing meaning no weapon) the diff emits exactly one weapon-change
\* entry and no weapon-level and no refinement entry.
C9_WeaponChangeSupersedes ==
    out.diffed =>
      \A n \in InBoth :
        StoredWeapon(Get(out.ref), n) # StoredWeapon(Get(out.tgt), n)
          => /\ EntriesOf(out.cs.weapon_changes, n) = 1
             /\ n \notin NamesIn(out.cs.weapon_level_changes)
             /\ n \notin NamesIn(out.cs.weapon_refinement_changes)

\* C9 witness: the single diff met a character whose weapon name, weapon
\* level and refinement all changed
C9_Witness ==
    /\ out.op = "diff"
    /\ out.diffed
    /\ \E n \in InBoth :
         /\ StoredWeapon(Get(out.ref), n) # StoredWeapon(Get(out.tgt), n)
         /\ TargetBatch[n].weapon_level > RefBatch[n].weapon_level
         /\ TargetBatch[n].weapon_refinement # RefBatch[n].weapon_refinement

\* C10: a character only in the reference A is in none of the seven
\* categories.
C10_RemovedCharacterNotReported ==
    out.diffed =>
      \A n \in OnlyInRef :
        n \notin NamesIn(out.cs.new_chars) \cup FieldChangeNames(out.cs)

\* C10 witness: the single diff met a character only in A, with stored
\* stats above zero and a weapon
C10_Witness ==
    /\ out.op = "diff"
    /\ out.diffed
    /\ \E n \in OnlyInRef :
         /\ RefBatch[n].level > 0
         /\ RefBatch[n].constellation > 0
         /\ RefBatch[n].weapon_name # ""

\* ---------------------------------------------------- claims on totals
\* the characters of an account's snapshot taken at time t
CharactersAt(a, t) ==
    {character_rows[i].character_name : i \in
       {j \in 1..Len(character_rows) :
          /\ character_rows[j].account_name = a
          /\ character_rows[j].taken_at_utc = t}}
CountA == Cardinality(CharactersAt(out.account, Get(out.ref)))
CountB == Cardinality(CharactersAt(out.account, Get(out.tgt)))

\* the text of a signed delta of one or two characters
SignedDeltaText ==
    [d \in {-2, -1, 1, 2} |->
        CASE d = -2 -> "-2" [] d = -1 -> "-1" [] d = 1 -> "+1" [] d = 2 -> "+2"]

\* C11: in every diff the total line is present iff the number of
\* characters in A differs from the number in B, and it then carries both
\* counts and the delta |B| - |A|, printed with "+" when positive and with
\* "-" when negative.
C11_TotalLineIffCountsDiffer ==
    out.diffed =>
      /\ out.cs.total_line # None <=> CountA # CountB
      /\ CountA # CountB =>
           /\ Get(out.cs.total_line).prev_total = CountA
           /\ Get(out.cs.total_line).curr_total = CountB
           /\ Get(out.cs.total_line).delta = CountB - CountA
           /\ Get(out.cs.total_line).shown = SignedDeltaText[CountB - CountA]

\* C11 witness: the single diff of a target with one character more and
\* no other change printed "+1"
C11_Witness ==
    /\ out.op = "diff"
    /\ out.diffed
    /\ CountB = CountA + 1
    /\ out.cs.total_line # None
    /\ Get(out.cs.total_line).shown = "+1"

\* C11 witness of the other sign: a period summary of a target with one
\* character fewer printed "-1"
C11_WitnessNegative ==
    /\ out.op = "period"
    /\ out.diffed
    /\ CountB = CountA - 1
    /\ out.cs.total_line # None
    /\ Get(out.cs.total_line).shown = "-1"

\* ------------------------------------------------- claims on the message
\* the number of entries in the seven categories of a change set
EntryCount(cs) ==
    Len(cs.new_chars) + Len(cs.level_ups) + Len(cs.friendship_ups)
      + Len(cs.constellation_changes) + Len(cs.weapon_changes)
      + Len(cs.weapon_level_changes) + Len(cs.weapon_refinement_changes)

\* the stored records of an account's snapshot taken at time t
RecordsAt(a, t) ==
    {[character_rows[i] EXCEPT !.taken_at_utc = 0] : i \in
       {j \in 1..Len(character_rows) :
          /\ character_rows[j].account_name = a
          /\ character_rows[j].taken_at_utc = t}}

\* C12: a message is sent for a diff iff its change set is non-empty,
\* empty meaning no entry in any of the seven categories and no total
\* line; where no diff is computed nothing is sent; a diff of two
\* identical snapshots sends nothing.
C12_MessageIffNonEmptyChangeSet ==
    out.op \in {"diff", "period"} =>
      /\ out.diffed =>
           (out.posted <=> (EntryCount(out.cs) > 0 \/ out.cs.total_line # None))
      /\ ~out.diffed => ~out.posted
      /\ (out.diffed /\ RecordsAt(out.account, Get(out.ref))
                         = RecordsAt(out.account, Get(out.tgt)))
           => ~out.posted

\* C12 witness: the single diff of two identical snapshots of two
\* characters with stats and a weapon sent nothing
C12_Witness ==
    /\ out.op = "diff"
    /\ out.diffed
    /\ ~out.posted
    /\ RecordsAt(out.account, Get(out.ref)) = RecordsAt(out.account, Get(out.tgt))
    /\ \E r \in RecordsAt(out.account, Get(out.ref)) :
         r.level # None /\ r.weapon_name \notin {None, Some("")}

\* C12 witness of the other direction: a change set with nothing but the
\* total line was sent
C12_WitnessTotalOnly ==
    /\ out.op = "diff"
    /\ out.diffed
    /\ out.posted
    /\ EntryCount(out.cs) = 0
    /\ out.cs.total_line # None

\* --------------------------------------- claims on the snapshots chosen
\* the snapshot times of an account
SnapshotTimes(a) ==
    {character_rows[i].taken_at_utc : i \in
       {j \in 1..Len(character_rows) : character_rows[j].account_name = a}}
\* those taken before t
EarlierTimes(a, t) == {u \in SnapshotTimes(a) : u < t}

\* C13: the single latest diff for the snapshot just appended at time t
\* has as reference the snapshot of the same account with the latest
\* taken_at strictly less than t and as target the one at t; with no
\* earlier snapshot no diff is computed and nothing is sent.
C13_DiffAgainstImmediatelyPreceding ==
    (out.op = "diff" /\ snapshot_time_utc # None) =>
      LET t == Get(snapshot_time_utc)
          earlier == EarlierTimes(out.account, t)
      IN IF earlier = {}
         THEN ~out.diffed /\ ~out.posted
         ELSE /\ out.diffed
              /\ out.tgt = Some(t)
              /\ Get(out.ref) \in earlier
              /\ \A u \in earlier : u <= Get(out.ref)

\* C13 witness: the diff chose the later of two earlier snapshots of the
\* account
C13_Witness ==
    /\ out.op = "diff"
    /\ out.diffed
    /\ Cardinality(EarlierTimes(out.account, Get(out.tgt))) >= 2
    /\ \E u \in EarlierTimes(out.account, Get(out.tgt)) : u < Get(out.ref)

\* C13 witness of the other case: the first snapshot of an account, taken
\* after one of the other account, was not diffed
C13_WitnessNoPrevious ==
    /\ out.op = "diff"
    /\ out.outcome = "no_previous"
    /\ \E i \in 1..Len(character_rows) :
         /\ character_rows[i].account_name # out.account
         /\ character_rows[i].taken_at_utc < Get(snapshot_time_utc)

\* C14: a due period evaluation with at least 2 distinct snapshot times
\* of the account in [now - days_back, now], both bounds included, diffs
\* the earliest of them (reference) against the latest (target); no
\* snapshot outside the window is reference or target.
C14_WindowEarliestAgainstLatest ==
    (out.op = "period" /\ out.outcome # "not_due") =>
      LET W == WindowTimes(out.account, out.now, out.days_back)
      IN IF Cardinality(W) >= 2
         THEN /\ out.diffed
              /\ Get(out.ref) \in W
              /\ Get(out.tgt) \in W
              /\ \A u \in W : Get(out.ref) <= u /\ u <= Get(out.tgt)
         ELSE ~out.diffed

\* C14 witness: the reference lies exactly on now - days_back, the target
\* exactly on now, and an older snapshot of the account was left out
C14_Witness ==
    /\ out.op = "period"
    /\ out.diffed
    /\ Get(out.ref) = out.now - out.days_back * SecondsPerDay
    /\ Get(out.tgt) = out.now
    /\ EarlierTimes(out.account, Get(out.ref)) # {}

\* ------------------------------------------- claims on the two routines
\* the change set maybe_post_character_diff computes from the mappings
\* the last period summary compared
DiffOfSameMappings == Diff_ChangeSet(RefBatch, TargetBatch)

C16_FailedCharacterFetchSkipsOnlyDependents ==
    /\ [][ /\ (pc = "chars" /\ out'.outcome = "fetch_failed")
               => /\ character_rows' = character_rows
                  /\ pc' = "diff" /\ acct' = acct /\ cycle' = cycle
           /\ (out.op = "chars" /\ out.outcome = "fetch_failed")
               => /\ out'.op = "diff" /\ ~out'.diffed /\ ~out'.posted
                  /\ character_rows' = character_rows
                  /\ pc' = "period" /\ period_idx' = 1
                  /\ acct' = acct /\ cycle' = cycle
           /\ pc = "period"
               => /\ out'.op = "period"
                  /\ out'.account = account
                  /\ out'.label = EvalLabel
                  /\ out'.outcome = "not_due" <=> EvalTooEarly
                  /\ cycle' = cycle
                  /\ IF period_idx < Len(Periods)
                     THEN /\ pc' = "period" /\ acct' = acct
                          /\ period_idx' = period_idx + 1
                     ELSE IF acct < Len(Accounts)
                     THEN pc' = "notes" /\ acct' = acct + 1
                     ELSE pc' = "sleep" ]_vars
    /\ (out.op = "chars" /\ out.outcome = "fetch_failed")
         ~> (/\ out.op = "period"
             /\ out.label = Periods[Len(Periods)].label
             /\ snapshot_time_utc = None)

\* C16 witness: after a failed character fetch of the first account a
\* period summary of it diffed the snapshots of earlier cycles, and the
\* second account was reached
C16_Witness ==
    /\ acct = 2
    /\ pc = "notes"
    /\ out.op = "period"
    /\ out.account = Accounts[1]
    /\ out.diffed
    /\ snapshot_time_utc = None

\* ---------------------------------------------- claims on the failures
\* C17: a post that is not delivered (a response that is not 2xx, or a
\* transport error) raises out of none of store_daily_notes,
\* maybe_post_character_diff and post_period_summary: the handler ends as
\* after a delivered post, the cycle goes on with its next step and not
\* with the same post again, and a period summary has recorded
\* last_run = now.
C17_DeliveryFailureIsSwallowed ==
    /\ [][ (out'.posted /\ ~out'.delivered /\ out'.outcome # "storage_error")
             => /\ pc' # "crashed"
                /\ out'.outcome # "raised"
                /\ out'.op = "notes"
                     => /\ pc' = "chars"
                        /\ Len(daily_notes') = Len(daily_notes) + 1
                        /\ SubSeq(daily_notes', 1, Len(daily_notes))
                             = daily_notes
                        /\ daily_notes'[Len(daily_notes')].taken_at_utc = clock
                        /\ daily_notes'[Len(daily_notes')].account_name
                             = account
                /\ out'.op = "diff"
                     => /\ pc' = "period"
                        /\ UNCHANGED << daily_notes, character_rows, run_rows >>
                /\ out'.op = "period"
                     => /\ pc' \in {"period", "notes", "sleep"}
                        /\ run_rows' = Append(run_rows,
                               [account_name |-> account,
                                period_label |-> EvalLabel,
                                last_run_utc |-> clock]) ]_vars
    /\ [][ (out.posted /\ ~out.delivered /\ pc # "crashed")
             => ~(/\ out'.op = out.op
                  /\ out'.account = out.account
                  /\ out'.label = out.label
                  /\ cycle' = cycle) ]_vars

\* C17 witness: a period summary was posted, the delivery failed, the
\* run is recorded and the cycle goes on
C17_Witness ==
    /\ out.op = "period"
    /\ out.outcome = "posted"
    /\ ~out.delivered
    /\ pc # "crashed"
    /\ MostRecentLastRun(out.account, out.label) = out.now

\* C18: a storage failure in a write ends only the current account's
\* part of the current cycle: the cycle goes on with the next account, or
\* with the sleep before the next cycle after the last account.
C18_StorageFailureEndsOnlyAccountCycle ==
    [][ out'.outcome = "storage_error"
          => IF acct < Len(Accounts)
             THEN pc' = "notes" /\ acct' = acct + 1
             ELSE pc' = "sleep" /\ acct' = acct ]_vars

\* C19: each write is atomic.  A character batch insert that fails after
\* some of its rows were inserted leaves no row of the batch in the
\* table, and any failed write leaves the daily-note rows, the snapshots
\* and the run records committed before exactly as they were.
C19_FailedWriteLeavesNoPartialState ==
    [][ out'.outcome = "storage_error"
          => /\ character_rows' = character_rows
             /\ daily_notes' = daily_notes
             /\ run_rows' = run_rows ]_vars

\* C19 witness: a batch insert failed with a row inserted and not
\* committed; the table holds no row of the batch, and the daily-note row
\* committed earlier in the cycle is there
C19_Witness ==
    /\ out.op = "chars"
    /\ out.outcome = "storage_error"
    /\ out.pending >= 1
    /\ out.now \notin SnapshotTimes(out.account)
    /\ \E i \in 1..Len(daily_notes) :
         /\ daily_notes[i].account_name = out.account
         /\ daily_notes[i].taken_at_utc = out.now

\* C20: a character fetch that succeeded, with any list of zero or more
\* records, persists a new snapshot: its taken_at is then among the times
\* the window query returns and is the previous snapshot of any later one.
C20_FetchedSnapshotIsPersisted ==
    (out.op = "chars" /\ out.outcome \in {"stored", "fetched_empty"}) =>
      /\ out.now \in WindowTimes(out.account, out.now, 0)
      /\ out.now \in EarlierTimes(out.account, out.now + 1)

\* ------------------------------------------------ claims on the timers
\* the row the last store_daily_notes inserted
LastNoteRow == daily_notes[Len(daily_notes)]

\* the recovery value of the notes, where exactly one of the attributes
\* holds a value; none when none does
PresentValues(times) == SelectSeq(times, LAMBDA v : v # RawNone)
HasOneValueAtMost(times) == Len(PresentValues(times)) <= 1
TheValue(times) ==
    IF PresentValues(times) = <<>> THEN RawNone ELSE PresentValues(times)[1]

\* the whole seconds a recovery value stands for, none when it stands for
\* no number of seconds
SecondsOf(value) ==
    CASE value.kind \in {"int", "str_int"} -> Some(value.v)
      [] value.kind = "float" -> Some(TruncTenths(value.tenths))
      [] value.kind \in {"str_iso", "datetime"} /\ value.aware ->
             Some(TruncTenths(value.tenths))
      [] OTHER -> None

\* the timer text C21 states for the amounts and the recovery value
TimerIsAsStated(timer, current, maximum, value) ==
    IF current # None /\ maximum # None /\ Get(current) >= Get(maximum)
    THEN timer = "Full"
    ELSE IF SecondsOf(value) = None THEN timer = "Unknown"
    ELSE IF Get(SecondsOf(value)) <= 0 THEN timer = "Full"
    ELSE timer \notin {"Full", "Unknown"}

\* C21: the timer text stored for resin and for realm currency is "Full"
\* when current and max are known and current >= max; else "Unknown"
\* when the recovery value stands for no number of seconds; else "Full"
\* when the seconds are <= 0, for every raw value including exactly 0 and
\* negatives; else an "in ..." text.
C21_StoredTimerText ==
    (out.op = "notes" /\ out.outcome = "stored") =>
      /\ HasOneValueAtMost(out.notes.resin_times)
           => TimerIsAsStated(LastNoteRow.resin_timer,
                  out.notes.current_resin, out.notes.max_resin,
                  TheValue(out.notes.resin_times))
      /\ HasOneValueAtMost(out.notes.realm_times)
           => TimerIsAsStated(LastNoteRow.teapot_timer,
                  out.notes.current_realm_currency,
                  out.notes.max_realm_currency,
                  TheValue(out.notes.realm_times))

\* C22: for a recovery value of every shape _parse_recovery_seconds
\* returns whole seconds or the unknown value and never raises, so
\* store_daily_notes stores its row; a value that stands for no number
\* of seconds gives unknown, never 0: its timer reads "Unknown", not
\* "Full", unless the amounts say full.
C22_ParseNeverRaises ==
    out.op = "notes" =>
      /\ pc # "crashed"
      /\ out.outcome = "stored"
      /\ ( /\ HasOneValueAtMost(out.notes.resin_times)
            /\ SecondsOf(TheValue(out.notes.resin_times)) = None
            /\ out.notes.max_resin = None )
           => LastNoteRow.resin_timer = "Unknown"

\* ------------------------------------------- claims on the re-trigger
\* In the first cycle of a process on an empty database every (account,
\* label) has no run record and at most one snapshot time, so each
\* evaluation of the first cycle is due, finds fewer than 2 snapshot
\* times and records last_run = now; the second cycle is the immediately
\* following one.

\* C23 as claimed: the evaluation of the same (account, label) in the
\* cycle that follows such an evaluation is suppressed.
C23_NextCycleSuppressed ==
    [][ (pc = "period" /\ cycle = 2)
          => /\ out'.outcome = "not_due"
             /\ run_rows' = run_rows ]_vars

\* ------------------------------------------- claims on the entry order
\* the place of a name in the lexicographic order of the names
NameRank(n) == CHOOSE i \in 1..Len(NameOrder) : NameOrder[i] = n

\* the names of the entries strictly ascend: sorted, and no name twice
StrictlyAscending(entries) ==
    \A i \in 1..Len(entries) : \A j \in 1..Len(entries) :
        i < j => NameRank(entries[i].name) < NameRank(entries[j].name)

\* the ids of the stored rows of the snapshot of account a taken at t
RowIdsAt(a, t) ==
    {i \in 1..Len(character_rows) :
        /\ character_rows[i].account_name = a
        /\ character_rows[i].taken_at_utc = t}

\* C24: in every diff, of either routine, the entries of each of the
\* seven categories are in ascending lexicographic order of character
\* name and no character has two entries in a category, whatever the
\* order and the number of the rows stored for the two snapshots.
C24_EntriesAscendByName ==
    out.diffed =>
      /\ StrictlyAscending(out.cs.new_chars)
      /\ StrictlyAscending(out.cs.level_ups)
      /\ StrictlyAscending(out.cs.friendship_ups)
      /\ StrictlyAscending(out.cs.constellation_changes)
      /\ StrictlyAscending(out.cs.weapon_changes)
      /\ StrictlyAscending(out.cs.weapon_level_changes)
      /\ StrictlyAscending(out.cs.weapon_refinement_changes)

\* C24 witness: a diff with two level-ups, Amber before Bennett, of a
\* target snapshot whose rows were stored Bennett first
C24_Witness ==
    /\ out.diffed
    /\ Len(out.cs.level_ups) = 2
    /\ out.cs.level_ups[1].name = "Amber"
    /\ out.cs.level_ups[2].name = "Bennett"
    /\ \E i \in RowIdsAt(out.account, Get(out.tgt)) :
       \E j \in RowIdsAt(out.account, Get(out.tgt)) :
          /\ i < j
          /\ character_rows[i].character_name = "Bennett"
          /\ character_rows[j].character_name = "Amber"

\* C24 witness: the target snapshot holds two rows of one name and the
\* diff has one entry for it
C24_WitnessOneEntryPerName ==
    /\ out.diffed
    /\ Len(out.cs.level_ups) = 1
    /\ \E i \in RowIdsAt(out.account, Get(out.tgt)) :
       \E j \in RowIdsAt(out.account, Get(out.tgt)) :
          /\ i < j
          /\ character_rows[i].character_name = out.cs.level_ups[1].name
          /\ character_rows[j].character_name = out.cs.level_ups[1].name

\* ------------------------------------------- claims on the step order
\* the place of an account in ACCOUNTS and of a label among the periods
AccountRank(a) == CHOOSE i \in 1..Len(Accounts) : Accounts[i] = a
PeriodRank(l) == CHOOSE i \in 1..Len(Periods) : Periods[i].label = l

\* the step reported in `out` is the last step of an account's cycle
IsLastStep(o) == o.op = "period" /\ PeriodRank(o.label) = Len(Periods)

\* C25: every step of run_once_for_account begins when the step before
\* it, of the same account, has ended: the daily note first, then the
\* character snapshot, then the single diff, then the period summaries
\* in the configured order; the first step of an account begins when the
\* last step of the account before it has ended, and the sleep when the
\* last step of the last account has ended.
C25_StepsInOrder ==
    [][ out' # out =>
          /\ out'.op = "notes" =>
                \/ out.op \in {"start", "sleep"} /\ AccountRank(out'.account) = 1
                \/ /\ IsLastStep(out)
                   /\ AccountRank(out'.account) = AccountRank(out.account) + 1
          /\ out'.op = "chars" =>
                out.op = "notes" /\ out'.account = out.account
          /\ out'.op = "diff" =>
                out.op = "chars" /\ out'.account = out.account
          /\ out'.op = "period" =>
                /\ out'.account = out.account
                /\ IF PeriodRank(out'.label) = 1
                   THEN out.op = "diff"
                   ELSE /\ out.op = "period"
                        /\ PeriodRank(out.label) = PeriodRank(out'.label) - 1
          /\ out'.op = "sleep" =>
                IsLastStep(out) /\ AccountRank(out.account) = Len(Accounts)
          /\ cycle' = cycle \/ out'.op = "sleep" ]_vars

\* C25 witness: the second account has begun, after the last period
\* summary of the first account and before its own first one
C25_Witness ==
    /\ out.op = "notes"
    /\ AccountRank(out.account) = 2
    /\ HasRunRecord(Accounts[1], Periods[Len(Periods)].label)
    /\ ~HasRunRecord(Accounts[2], Periods[1].label)

\* ------------------------------------------- claims on rows written twice
\* the ids of the rows of character n in the snapshot of a taken at t
RowIdsOf(a, t, n) ==
    {i \in RowIdsAt(a, t) : character_rows[i].character_name = n}
WrittenTwice(a, t, n) == Cardinality(RowIdsOf(a, t, n)) >= 2
\* the row of (a, t, n) written last
LastWritten(a, t, n) ==
    character_rows[CHOOSE i \in RowIdsOf(a, t, n) :
                      \A j \in RowIdsOf(a, t, n) : j <= i]

\* what the reads report when rows are in the table more than once
ReadsSeeLastWrite ==
    /\ out.diffed =>
          /\ Get(out.ref) < Get(out.tgt)
          /\ \A n \in CharactersAt(out.account, Get(out.ref))
                      \cap CharactersAt(out.account, Get(out.tgt)) :
                LET old == OrZero(LastWritten(out.account, Get(out.ref), n).level)
                    new == OrZero(LastWritten(out.account, Get(out.tgt), n).level)
                IN IF new > old
                   THEN EntriesOf(out.cs.level_ups, n) = 1
                        /\ \E i \in 1..Len(out.cs.level_ups) :
                              out.cs.level_ups[i] =
                                [name |-> n, old |-> old, new |-> new]
                   ELSE EntriesOf(out.cs.level_ups, n) = 0
    /\ (out.op = "diff" /\ out.outcome = "no_previous") =>
          EarlierTimes(out.account, Get(snapshot_time_utc)) = {}
    /\ (out.op = "period" /\ out.outcome # "not_due") =>
          (out.outcome = "no_data" <=>
             Cardinality(WindowTimes(out.account, out.now, out.days_back)) < 2)

\* C26: rows written with the same account, taken_at and character name
\* all stay stored (no step removes or changes a stored row); they count
\* as one snapshot time for the window of a period summary and for the
\* previous time of the single diff; and the diffs compare, for that
\* name, the record written last.
C26_LastWriteWinsBothStay ==
    [][ /\ Len(character_rows') >= Len(character_rows)
        /\ SubSeq(character_rows', 1, Len(character_rows)) = character_rows
        /\ ReadsSeeLastWrite' ]_vars

\* C26 witness: Amber was written twice in the target snapshot, first
\* without a level and last with level 1, and the diff reports her
\* level-up from the single row of the reference
C26_Witness ==
    /\ out.op = "diff"
    /\ out.diffed
    /\ WrittenTwice(out.account, Get(out.tgt), "Amber")
    /\ \E i \in RowIdsOf(out.account, Get(out.tgt), "Amber") :
          character_rows[i].level = None
    /\ LastWritten(out.account, Get(out.tgt), "Amber").level = Some(1)
    /\ EntriesOf(out.cs.level_ups, "Amber") = 1

\* C26 witness: two stores of two cycles have the same taken_at; the
\* window holds their rows and one snapshot time, so the period
\* summary finds too little data, and the diff finds no previous time
C26_WitnessOneSnapshotTime ==
    /\ out.op = "period"
    /\ out.outcome = "no_data"
    /\ cycle = 2
    /\ snapshot_time_utc # None
    /\ WrittenTwice(out.account, Get(snapshot_time_utc), "Amber")
    /\ EarlierTimes(out.account, Get(snapshot_time_utc)) = {}
    /\ WindowTimes(out.account, out.now, out.days_back)
          = {Get(snapshot_time_utc)}

\* ------------------------------------------- claims on the partitions
\* the tables without the rows of the other accounts, and the run
\* records without those of the other accounts and the other labels
OwnCharacterRows ==
    SelectSeq(character_rows, LAMBDA r : r.account_name = account)
OwnRunRows ==
    SelectSeq(run_rows, LAMBDA r : /\ r.account_name = account
                                   /\ r.period_label = EvalLabel)

\* the outcome of the single diff, from the account's own rows alone
DiffFromOwnRows(o) ==
    IF snapshot_time_utc = None THEN o.outcome = "skipped"
    ELSE LET t == Get(snapshot_time_utc)
             prev == PreviousSnapshotTime(OwnCharacterRows, account, t)
         IN IF prev = None THEN o.outcome = "no_previous" /\ ~o.diffed
            ELSE /\ o.diffed
                 /\ o.ref = prev
                 /\ o.tgt = Some(t)
                 /\ o.cs = Diff_ChangeSet(
                        LoadCharacterBatch(OwnCharacterRows, account, Get(prev)),
                        LoadCharacterBatch(OwnCharacterRows, account, t))

\* the outcome of a period summary, from the account's own snapshot
\* rows and the run records of the pair alone
PeriodFromOwnRows(o) ==
    LET latest == LatestRun(OwnRunRows, account, EvalLabel)
        times == DistinctTimesInWindow(OwnCharacterRows, account,
                     clock - EvalDaysBack * SecondsPerDay, clock)
    IN IF latest # None /\ NotDue(clock, Get(latest), EvalDaysBack)
       THEN o.outcome = "not_due"
       ELSE IF Len(times) < 2
       THEN o.outcome = "no_data"
       ELSE /\ o.diffed
            /\ o.ref = Some(times[1])
            /\ o.tgt = Some(times[Len(times)])
            /\ o.cs = Summary_ChangeSet(
                   LoadCharacterBatch(OwnCharacterRows, account, times[1]),
                   LoadCharacterBatch(OwnCharacterRows, account,
                                      times[Len(times)]),
                   ExistedBefore(OwnCharacterRows, account, times[1]))

\* C27: the single diff and a period summary of account a and label l
\* change no snapshot row and no run record that is in the tables, and
\* add at most one run record, of (a, l); what they compute is what
\* they compute from the snapshot rows of a and the run records of
\* (a, l) alone, the tables being shared by the accounts.
C27_OnlyOwnRows ==
    [][ (pc = "diff" \/ pc = "period") =>
          /\ character_rows' = character_rows
          /\ daily_notes' = daily_notes
          /\ \/ run_rows' = run_rows
             \/ /\ pc = "period"
                /\ run_rows' = Append(run_rows,
                       [account_name |-> account, period_label |-> EvalLabel,
                        last_run_utc |-> clock])
          /\ pc = "diff" => DiffFromOwnRows(out')
          /\ pc = "period" => PeriodFromOwnRows(out') ]_vars

\* C27 witness: a period summary diffed two snapshots of its account
\* while the window also held a snapshot of another account, and run
\* records of another account and of another label were in the table
C27_Witness ==
    /\ out.op = "period"
    /\ out.diffed
    /\ \E i \in 1..Len(character_rows) :
          /\ character_rows[i].account_name # out.account
          /\ character_rows[i].taken_at_utc <= out.now
          /\ character_rows[i].taken_at_utc
                >= out.now - out.days_back * SecondsPerDay
    /\ \E i \in 1..Len(run_rows) :
          /\ run_rows[i].account_name # out.account
          /\ run_rows[i].period_label = out.label
    /\ \E i \in 1..Len(run_rows) :
          /\ run_rows[i].account_name = out.account
          /\ run_rows[i].period_label # out.label

\* C27 witness: the first snapshot of an account was stored after a
\* snapshot of another account, and the single diff found no previous
C27_WitnessDiff ==
    /\ out.op = "diff"
    /\ out.outcome = "no_previous"
    /\ \E i \in 1..Len(character_rows) :
          /\ character_rows[i].account_name # out.account
          /\ character_rows[i].taken_at_utc < Get(snapshot_time_utc)

\* ------------------------------------------- claims on the run records
\* C28: when an evaluation of (account, label) completes (the process
\* is not ended by a failure of the storage), a run record of the pair
\* is in the table, so it is there after the first evaluation of the
\* pair; and no step removes or changes a run record, so once a pair
\* has a run record it has one ever after.
C28_RunRecordExistsAndStays ==
    [][ /\ Len(run_rows') >= Len(run_rows)
        /\ SubSeq(run_rows', 1, Len(run_rows)) = run_rows
        /\ (pc = "period" /\ pc' # "crashed") =>
              \E i \in 1..Len(run_rows') :
                 /\ run_rows'[i].account_name = account
                 /\ run_rows'[i].period_label = EvalLabel ]_vars

\* C28 witness: the first evaluation of a pair has completed and has
\* left the first run record of the pair
C28_Witness ==
    /\ out.op = "period"
    /\ pc # "crashed"
    /\ out.outcome # "not_due"
    /\ Cardinality(RunIds(out.account, out.label)) = 1
    /\ MostRecentLastRun(out.account, out.label) = out.now

\* C28 witness: a later evaluation of the pair was suppressed and the
\* run record is still there
C28_WitnessStays ==
    /\ out.op = "period"
    /\ out.outcome = "not_due"
    /\ Cardinality(RunIds(out.account, out.label)) = 1
    /\ MostRecentLastRun(out.account, out.label) < out.now

\* ------------------------------------------- claims on the two snapshots
\* C29: in every diff, of either routine, the reference and the target
\* are snapshots of the account the diff is for, the reference taken
\* strictly earlier than the target (so a snapshot is never diffed
\* against itself), and every entry of the change set names a character
\* of the target snapshot of that account.
C29_ReferenceEarlierSameAccount ==
    out.diffed =>
      /\ Get(out.ref) \in SnapshotTimes(out.account)
      /\ Get(out.tgt) \in SnapshotTimes(out.account)
      /\ Get(out.ref) < Get(out.tgt)
      /\ NamesIn(out.cs.new_chars) \cup FieldChangeNames(out.cs)
            \subseteq CharactersAt(out.account, Get(out.tgt))
      /\ FieldChangeNames(out.cs)
            \subseteq CharactersAt(out.account, Get(out.ref))

\* C29 witness: a period summary diffed two snapshots of its account
\* while another account had a snapshot at the time of the reference
C29_Witness ==
    /\ out.op = "period"
    /\ out.diffed
    /\ RowIdsAt(CHOOSE a \in {Accounts[i] : i \in 1..Len(Accounts)} :
                   a # out.account, Get(out.ref)) # {}

\* C29 witness: the single diff, with a snapshot of another account at
\* the time of the target
C29_WitnessDiff ==
    /\ out.op = "diff"
    /\ out.diffed
    /\ \E i \in 1..Len(character_rows) :
          /\ character_rows[i].account_name # out.account
          /\ character_rows[i].taken_at_utc = Get(out.tgt)

\* ------------------------------------------- claims on the spacing
\* C30: with a clock that is never set back, a due evaluation of
\* (account, label) comes at least (days_back - 1) days after every
\* earlier due evaluation of the pair, each of which left a run record
\* with its time; a period summary message is sent only by a due
\* evaluation, so two messages of a pair are at least (days_back - 1)
\* days apart.
C30_DueEvaluationsApart ==
    [][ (pc = "period" /\ out'.outcome # "not_due") =>
          /\ \A i \in RunIds(account, EvalLabel) :
                clock - run_rows[i].last_run_utc
                  >= (EvalDaysBack - 1) * SecondsPerDay
          /\ run_rows' = Append(run_rows,
                 [account_name |-> account, period_label |-> EvalLabel,
                  last_run_utc |-> clock]) ]_vars

\* C30 witness: the third due evaluation of the pair of the longer
\* period sent a message, (days_back - 1) days after the second, which
\* came (days_back - 1) days after the first
C30_Witness ==
    /\ out.op = "period"
    /\ out.posted
    /\ out.days_back > 1
    /\ Cardinality(RunIds(out.account, out.label)) = 3
    /\ \A i \in RunIds(out.account, out.label) :
          \/ run_rows[i].last_run_utc = out.now
          \/ run_rows[i].last_run_utc
                <= out.now - (out.days_back - 1) * SecondsPerDay

\* ------------------------------------------- claims on the windows
\* C31: when the evaluations of (account, label), days_back >= 1, are
\* never more than one day apart, the window [now - days_back, now] of
\* a due evaluation starts no later than the last_run that the due
\* evaluation before it recorded, so every snapshot of the account
\* taken since then is in the window: with fewer than 2 of them in the
\* window there are fewer than 2 since, and a reference is no later
\* than any of them.
C31_WindowsLeaveNoGap ==
    [][ ( /\ pc = "period"
          /\ EvalDaysBack >= 1
          /\ HasRunRecord(account, EvalLabel)
          /\ out'.outcome # "not_due" )
          => LET last_run == MostRecentLastRun(account, EvalLabel)
                 since == {t \in SnapshotTimes(account) :
                              last_run <= t /\ t <= clock}
             IN /\ clock - EvalDaysBack * SecondsPerDay <= last_run
                /\ out'.outcome = "no_data" => Cardinality(since) < 2
                /\ out'.diffed => \A t \in since : Get(out'.ref) <= t ]_vars

\* C31 witness: a due evaluation a day after a suppressed one, as long
\* after the due evaluation before it as the cycles allow (less than
\* days_back days); it diffed from the snapshot taken at that
\* evaluation, which its window holds
C31_Witness ==
    /\ out.op = "period"
    /\ out.diffed
    /\ out.days_back >= 1
    /\ cycle >= 3
    /\ \E i \in RunIds(out.account, out.label) :
          /\ out.now - run_rows[i].last_run_utc
                = (out.days_back - 1) * SecondsPerDay + 1
          /\ Get(out.ref) = run_rows[i].last_run_utc
          /\ \A j \in RunIds(out.account, out.label) :
                j <= i \/ run_rows[j].last_run_utc = out.now

\* ------------------------------------------- claims on the recurrence
\* the seconds after last_run at which an evaluation is due again
DueAfter(days_back) ==
    IF days_back >= 1 THEN (days_back - 1) * SecondsPerDay ELSE 0
\* the bounded run goes on long enough after last_run = t: the sleeps
\* that may be needed, each of loop_seconds or more, fit in the cycles
\* and in the clock that are left, however little each one adds
RoomFor(t, days_back) ==
    LET sleeps == IF DueAfter(days_back) > LoopSeconds
                  THEN (DueAfter(days_back) + LoopSeconds - 1) \div LoopSeconds
                  ELSE 1
        latest == IF clock > t + DueAfter(days_back) - 1
                  THEN clock ELSE t + DueAfter(days_back) - 1
    IN /\ cycle + sleeps <= MaxRunCycles
       /\ latest + LoopSeconds <= MaxRunClock

\* C32: while the cycles keep running and the clock keeps growing,
\* whatever the most recent last_run of (account, label) is, a later
\* evaluation of the pair is due and records a later last_run; no
\* pair stays suppressed, whatever fetches and deliveries fail.
C32_DueAgainEventually ==
    \A i \in 1..Len(Accounts) : \A j \in 1..Len(Periods) :
      \A t \in MaxClock..MaxRunClock :
        ( /\ HasRunRecord(Accounts[i], Periods[j].label)
          /\ MostRecentLastRun(Accounts[i], Periods[j].label) = t
          /\ RoomFor(t, Periods[j].days_back) )
        ~> ( /\ HasRunRecord(Accounts[i], Periods[j].label)
             /\ MostRecentLastRun(Accounts[i], Periods[j].label) > t )

\* C32 witness: the pair of the longer period was due a second time,
\* after a suppressed evaluation, and recorded a later last_run
C32_Witness ==
    /\ out.op = "period"
    /\ out.days_back > 1
    /\ out.outcome # "not_due"
    /\ cycle >= 3
    /\ Cardinality(RunIds(out.account, out.label)) = 2
    /\ MostRecentLastRun(out.account, out.label) = out.now
    /\ \E i \in RunIds(out.account, out.label) :
          run_rows[i].last_run_utc < out.now

====
